---- MODULE Spec2Model ----
(***************************************************************************)
(* Vector and Matrix of rocketpy/tools.py (3-vectors and 3x3 matrices with *)
(* real or complex components), the cached_property descriptor they use,   *)
(* and the helper functions of the same file.                              *)
(*                                                                         *)
(* Numbers are exact: a number is (re + im*i)/den in lowest terms, so the  *)
(* arithmetic of the source is modelled without rounding.  A Python value  *)
(* is one of                                                               *)
(*    [re, im, den]   a number                                             *)
(*    [fn]            a callable, lambda t: t**fn                          *)
(*    [irr]           the principal square root of the number irr, when    *)
(*                    it is no number of the model (an irrational)         *)
(*    [exc]           a raised exception, which every later step carries   *)
(*                    on (the first one raised, in evaluation order)       *)
(*    [bool], [list], [obj], [tup]   booleans, list references, instance   *)
(*                    references and tuples                                *)
(***************************************************************************)
EXTENDS Integers, Sequences, FiniteSets, TLC

\* ------------------------------------------------------------------------
\* Python numbers (int, float, complex) in exact arithmetic
\* ------------------------------------------------------------------------

RECURSIVE GCD(_, _)
GCD(a, b) == IF b = 0 THEN a ELSE GCD(b, a % b)

IAbs(n) == IF n < 0 THEN -n ELSE n

\* (a + b*i)/d in lowest terms with a positive denominator (d # 0)
Num(a, b, d) ==
  LET g == GCD(GCD(IAbs(a), IAbs(b)), IAbs(d))
      s == IF d < 0 THEN -1 ELSE 1
  IN  [re |-> s * (a \div g), im |-> s * (b \div g), den |-> IAbs(d) \div g]

I(n) == [re |-> n, im |-> 0, den |-> 1]
Rat(n, d) == Num(n, 0, d)
Cpx(a, b) == [re |-> a, im |-> b, den |-> 1]

IsNum(v) == DOMAIN v = {"re", "im", "den"}
IsExc(v) == "exc" \in DOMAIN v
IsFn(v) == DOMAIN v = {"fn"}
IsIrr(v) == DOMAIN v = {"irr"}
IsList(v) == DOMAIN v = {"items"}
IsTuple(v) == DOMAIN v = {"tup"}
IsInstance(v, cls) == "cls" \in DOMAIN v /\ v.cls = cls
IsZero(v) == IsNum(v) /\ v.re = 0 /\ v.im = 0
IsReal(v) == IsNum(v) /\ v.im = 0

Raise(type, msg) == [exc |-> type, msg |-> msg]
TypeError == Raise("TypeError", "")
ValueError == Raise("ValueError", "")
IndexError == Raise("IndexError", "")
AttributeError == Raise("AttributeError", "")
ZeroDivisionError == Raise("ZeroDivisionError", "")
\* not an exception of the program: the result is a number outside the model's
\* exact arithmetic (it has an irrational part); no action of the model takes
\* a step whose result is this
Unrepresentable == Raise("Unrepresentable", "")
True == [bool |-> TRUE]
False == [bool |-> FALSE]
Bool(b) == [bool |-> b]

\* a unary / binary operator of Python applied to evaluated operands: an
\* operand that already raised wins, a non-number operand is a TypeError
Unary(a, Op(_)) ==
  IF IsExc(a) THEN a
  ELSE IF IsIrr(a) THEN Unrepresentable
  ELSE IF IsNum(a) THEN Op(a)
  ELSE TypeError

Binary(a, b, Op(_, _)) ==
  IF IsExc(a) THEN a
  ELSE IF IsExc(b) THEN b
  ELSE IF IsIrr(a) \/ IsIrr(b) THEN Unrepresentable
  ELSE IF IsNum(a) /\ IsNum(b) THEN Op(a, b)
  ELSE TypeError

NumNeg(a) == Num(-a.re, -a.im, a.den)
\* sums are taken over the least common denominator
NumAdd(a, b) ==
  LET g == GCD(a.den, b.den)
      p == b.den \div g
      q == a.den \div g
  IN  Num(a.re * p + b.re * q, a.im * p + b.im * q, a.den * p)
NumSub(a, b) == NumAdd(a, NumNeg(b))
NumMul(a, b) ==
  Num(a.re * b.re - a.im * b.im, a.re * b.im + a.im * b.re, a.den * b.den)
NumDiv(a, b) ==
  IF b.re = 0 /\ b.im = 0 THEN ZeroDivisionError
  ELSE IF b.im = 0 THEN Num(a.re * b.den, a.im * b.den, a.den * b.re)
  ELSE Num((a.re * b.re + a.im * b.im) * b.den,
           (a.im * b.re - a.re * b.im) * b.den,
           a.den * (b.re * b.re + b.im * b.im))

\* a number of the model that is whole and real stands for a Python int
IsInt(v) == IsNum(v) /\ v.im = 0 /\ v.den = 1

\* list * n and n * list for an int n: the list repeated n times
RECURSIVE Repeat(_, _)
Repeat(items, n) == IF n <= 0 THEN <<>> ELSE items \o Repeat(items, n - 1)

neg(a) == Unary(a, NumNeg)
\* + of two numbers, or of two lists (concatenation)
add(a, b) ==
  IF ~IsExc(a) /\ ~IsExc(b) /\ IsList(a) /\ IsList(b)
  THEN [items |-> a.items \o b.items]
  ELSE Binary(a, b, NumAdd)
sub(a, b) == Binary(a, b, NumSub)
\* * of two numbers, or of an int and a list (repetition)
mul(a, b) ==
  IF ~IsExc(a) /\ ~IsExc(b) /\ IsInt(a) /\ IsList(b)
  THEN [items |-> Repeat(b.items, a.re)]
  ELSE IF ~IsExc(a) /\ ~IsExc(b) /\ IsList(a) /\ IsInt(b)
  THEN [items |-> Repeat(a.items, b.re)]
  ELSE Binary(a, b, NumMul)
div(a, b) == Binary(a, b, NumDiv)
sq(a) == mul(a, a)

\* the largest r with r*r <= n
ISqrt(n) == CHOOSE r \in 0..n : r * r <= n /\ n < (r + 1) * (r + 1)
IsSquare(n) == n >= 0 /\ ISqrt(n) * ISqrt(n) = n

\* how far the search for the exact root of a non-real number goes
MaxRoot == 3

\* s ** 0.5: the principal square root
NumSqrt(s) ==
  IF s.im = 0 /\ s.re >= 0 THEN
    IF IsSquare(s.re) /\ IsSquare(s.den)
    THEN Num(ISqrt(s.re), 0, ISqrt(s.den)) ELSE [irr |-> s]
  ELSE IF s.im = 0 THEN
    IF IsSquare(-s.re) /\ IsSquare(s.den)
    THEN Num(0, ISqrt(-s.re), ISqrt(s.den)) ELSE [irr |-> s]
  ELSE
    LET roots == {w \in (1..MaxRoot) \X ((-MaxRoot)..MaxRoot) \X (1..MaxRoot) :
                    Num(w[1] * w[1] - w[2] * w[2], 2 * w[1] * w[2], w[3] * w[3]) = s}
    IN  IF roots = {} THEN [irr |-> s]
        ELSE LET w == CHOOSE w \in roots : TRUE IN Num(w[1], w[2], w[3])

sqrt(a) == Unary(a, NumSqrt)

\* abs_tol of isclose in __eq__ and is_orthogonal_to is 1e-9 = 1/EqTolInv;
\* tol of is_diagonal is 1e-6 = 1/DiagTolInv
EqTolInv == 1000000000
DiagTolInv == 1000000

\* |z| <= 1/T for a number z, without leaving 32 bits where |z| is rational
ModLe(z, T) ==
  IF z.re = 0 /\ z.im = 0 THEN TRUE
  ELSE IF z.im = 0 THEN IAbs(z.re) <= z.den \div T
  ELSE IF z.re = 0 THEN IAbs(z.im) <= z.den \div T
  ELSE IF z.den < T THEN FALSE
  ELSE LET s == z.re * z.re + z.im * z.im
           q == z.den \div T
       IN  IF s <= q * q THEN TRUE
           ELSE IF s >= (q + 1) * (q + 1) THEN FALSE
           ELSE s * T * T <= z.den * z.den

\* cmath.isclose(a, b, rel_tol=0, abs_tol=1e-9)
isclose(a, b) ==
  LET d == sub(a, b)
  IN  IF IsExc(d) THEN d ELSE Bool(ModLe(d, EqTolInv))

\* a and b of Python: b is not evaluated when a is false or raised
And(a, b) == IF IsExc(a) THEN a ELSE IF a.bool THEN b ELSE a

\* ------------------------------------------------------------------------
\* class Vector.  An instance, as a method sees it, is the record of its
\* attributes: components (the list it was constructed from, with the
\* elements that list holds now) and the copies x, y, z made by __init__.
\* ------------------------------------------------------------------------

\* the list display [a, b, c]: the elements are evaluated left to right
List3(a, b, c) ==
  IF IsExc(a) THEN a
  ELSE IF IsExc(b) THEN b
  ELSE IF IsExc(c) THEN c
  ELSE [items |-> <<a, b, c>>]

\* o.name
attr(o, name) ==
  IF IsExc(o) THEN o
  ELSE IF "cls" \in DOMAIN o /\ name \in DOMAIN o THEN o[name]
  ELSE AttributeError

\* len(o): Vector.__len__ and Matrix.__len__ return 3
len(o) ==
  IF IsExc(o) THEN o
  ELSE IF "cls" \in DOMAIN o THEN I(3)
  ELSE IF IsList(o) THEN I(Len(o.items))
  ELSE TypeError

\* seq[i] on a list, i counted from 0
index(seq, i) ==
  IF IsExc(seq) THEN seq
  ELSE IF ~IsList(seq) THEN TypeError
  ELSE IF i + 1 \in 1..Len(seq.items) THEN seq.items[i + 1]
  ELSE IndexError

\* a constructor that unpacks the components from the last to the first
Vector_reversed(components) ==
  IF IsExc(components) THEN components
  ELSE IF ~IsList(components) THEN TypeError
  ELSE IF Len(components.items) # 3 THEN ValueError
  ELSE [cls |-> "Vector", components |-> components,
        x |-> components.items[3], y |-> components.items[2],
        z |-> components.items[1]]

\* Vector.__init__: self.x, self.y, self.z = self.components
Vector(components) ==
  IF IsExc(components) THEN components
  ELSE IF ~IsList(components) THEN TypeError
  ELSE IF Len(components.items) # 3 THEN ValueError
  ELSE [cls |-> "Vector", components |-> components,
        x |-> components.items[1], y |-> components.items[2],
        z |-> components.items[3]]

Vector_getitem(self, i) == index(self.components, i)

\* the operation element_wise is given: lambda x: x**2 of its docstring, or
\* lambda f: f(*args) of __call__
RECURSIVE ipow(_, _)
ipow(t, k) == IF k = 0 THEN I(1) ELSE mul(ipow(t, k - 1), t)

Apply(operation, v) ==
  IF IsExc(v) THEN v
  ELSE IF operation.op = "square" THEN sq(v)
  ELSE IF ~IsFn(v) THEN TypeError
  ELSE ipow(operation.args, v.fn)

Vector_element_wise(self, operation) ==
  Vector(List3(Apply(operation, self.x), Apply(operation, self.y),
               Apply(operation, self.z)))

\* a call that lets the TypeError of element_wise through as it is
Vector_call_unwrapped(self, args) ==
  Vector_element_wise(self, [op |-> "call", args |-> args])

Vector_call(self, args) ==
  LET r == Vector_element_wise(self, [op |-> "call", args |-> args])
  IN  IF IsExc(r) /\ r.exc = "TypeError"
      THEN Raise("TypeError", "One or more elements of this vector is not callable.")
      ELSE r

\* a norm that leaves the z component out
Vector_abs_without_z(self) == sqrt(add(sq(self.x), sq(self.y)))

Vector_abs(self) == sqrt(add(add(sq(self.x), sq(self.y)), sq(self.z)))

Vector_neg(self) == Vector(List3(neg(self.x), neg(self.y), neg(self.z)))

Vector_add(self, other) ==
  Vector(List3(add(self.x, attr(other, "x")), add(self.y, attr(other, "y")),
               add(self.z, attr(other, "z"))))

Vector_sub(self, other) ==
  Vector(List3(sub(self.x, attr(other, "x")), sub(self.y, attr(other, "y")),
               sub(self.z, attr(other, "z"))))

Vector_rmul(self, other) ==
  Vector(List3(mul(other, self.x), mul(other, self.y), mul(other, self.z)))

Vector_mul(self, other) == Vector_rmul(self, other)

\* a division that gives the zero vector when the divisor is 0
Vector_truediv_zero_safe(self, other) ==
  IF IsZero(other) THEN Vector(List3(I(0), I(0), I(0)))
  ELSE Vector(List3(div(self.x, other), div(self.y, other), div(self.z, other)))

Vector_truediv(self, other) ==
  Vector(List3(div(self.x, other), div(self.y, other), div(self.z, other)))

\* a cross product that takes its operands in the other order
Vector_xor_swapped(self, other) ==
  Vector(List3(
    sub(mul(attr(other, "y"), self.z), mul(attr(other, "z"), self.y)),
    add(mul(neg(attr(other, "x")), self.z), mul(attr(other, "z"), self.x)),
    sub(mul(attr(other, "x"), self.y), mul(attr(other, "y"), self.x))))

\* a cross product whose second component has lost its minus sign
Vector_xor_symmetric_y(self, other) ==
  Vector(List3(
    sub(mul(self.y, attr(other, "z")), mul(self.z, attr(other, "y"))),
    add(mul(self.x, attr(other, "z")), mul(self.z, attr(other, "x"))),
    sub(mul(self.x, attr(other, "y")), mul(self.y, attr(other, "x")))))

Vector_xor(self, other) ==
  Vector(List3(
    sub(mul(self.y, attr(other, "z")), mul(self.z, attr(other, "y"))),
    add(mul(neg(self.x), attr(other, "z")), mul(self.z, attr(other, "x"))),
    sub(mul(self.x, attr(other, "y")), mul(self.y, attr(other, "x")))))

Vector_matmul(self, other) ==
  add(add(mul(self.x, attr(other, "x")), mul(self.y, attr(other, "y"))),
      mul(self.z, attr(other, "z")))

\* o[i] for an instance o: Vector.__getitem__ or Matrix.__getitem__ with an int
getitem(o, i) ==
  IF IsExc(o) THEN o
  ELSE IF "cls" \in DOMAIN o THEN index(o.components, i)
  ELSE index(o, i)

\* a == b for the results of len
inteq(a, b) == IF IsExc(a) THEN a ELSE Bool(a = b)

\* an equality that does not compare the z components
Vector_eq_without_z(self, other) ==
  And(inteq(len(other), I(3)),
  And(isclose(self.x, getitem(other, 0)),
      isclose(self.y, getitem(other, 1))))

Vector_eq(self, other) ==
  And(inteq(len(other), I(3)),
  And(isclose(self.x, getitem(other, 0)),
  And(isclose(self.y, getitem(other, 1)),
      isclose(self.z, getitem(other, 2)))))

Vector_zeros == Vector(List3(I(0), I(0), I(0)))
Vector_i == Vector(List3(I(1), I(0), I(0)))
Vector_j == Vector(List3(I(0), I(1), I(0)))
Vector_k == Vector(List3(I(0), I(0), I(1)))

\* a test for parallel vectors that accepts only an exactly zero cross product
Vector_is_parallel_to_exact(self, other) ==
  LET c == Vector_xor(self, other)
  IN  IF IsExc(c) THEN c ELSE Bool(IsZero(c.x) /\ IsZero(c.y) /\ IsZero(c.z))

Vector_is_parallel_to(self, other) ==
  LET c == Vector_xor(self, other)
  IN  IF IsExc(c) THEN c ELSE Vector_eq(c, Vector(List3(I(0), I(0), I(0))))

\* a test for orthogonal vectors that accepts only an exactly zero dot product
Vector_is_orthogonal_to_exact(self, other) ==
  LET d == Vector_matmul(self, other)
  IN  IF IsExc(d) THEN d ELSE Bool(IsZero(d))

Vector_is_orthogonal_to(self, other) == isclose(Vector_matmul(self, other), I(0))

Vector_dot(self, other) == Vector_matmul(self, other)
Vector_cross(self, other) == Vector_xor(self, other)

Vector_unit_vector(self) == Vector_truediv(self, Vector_abs(self))

\* ------------------------------------------------------------------------
\* class Matrix.  An instance is the record of its attributes: components
\* (the nested list it was constructed from, as it is now), the rows x, y, z
\* and the copies xx .. zz made by __init__.
\* ------------------------------------------------------------------------

\* a, b, c = row
Unpack3(row) ==
  IF IsExc(row) THEN row
  ELSE IF ~IsList(row) THEN TypeError
  ELSE IF Len(row.items) # 3 THEN ValueError
  ELSE row

Matrix(components) ==
  LET rows == Unpack3(components)
      x == Unpack3(rows.items[1])
      y == Unpack3(rows.items[2])
      z == Unpack3(rows.items[3])
  IN  IF IsExc(rows) THEN rows
      ELSE IF IsExc(x) THEN x
      ELSE IF IsExc(y) THEN y
      ELSE IF IsExc(z) THEN z
      ELSE [cls |-> "Matrix", components |-> components, x |-> x, y |-> y, z |-> z,
            xx |-> x.items[1], xy |-> x.items[2], xz |-> x.items[3],
            yx |-> y.items[1], yy |-> y.items[2], yz |-> y.items[3],
            zx |-> z.items[1], zy |-> z.items[2], zz |-> z.items[3]]

\* the nested list display [[a, b, c], [d, e, f], [g, h, k]]
List9(a, b, c, d, e, f, g, h, k) == List3(List3(a, b, c), List3(d, e, f), List3(g, h, k))

\* Vector.cross_matrix (a cached property of Vector; it constructs a Matrix)
\* a cross matrix with the signs of its off-diagonal elements exchanged
Vector_cross_matrix_transposed(self) ==
  Matrix(List9(I(0), self.z, neg(self.y),
               neg(self.z), I(0), self.x,
               self.y, neg(self.x), I(0)))

Vector_cross_matrix(self) ==
  Matrix(List9(I(0), neg(self.z), self.y,
               self.z, I(0), neg(self.x),
               neg(self.y), self.x, I(0)))

\* Matrix.__getitem__: args is an int (a number) or a tuple (i, j)
Matrix_getitem(self, args) ==
  IF IsNum(args) THEN index(self.components, args.re)
  ELSE index(index(self.components, args.tup[1]), args.tup[2])

Matrix_element_wise(self, operation) ==
  Matrix(List9(
    Apply(operation, self.xx), Apply(operation, self.xy), Apply(operation, self.xz),
    Apply(operation, self.yx), Apply(operation, self.yy), Apply(operation, self.yz),
    Apply(operation, self.zx), Apply(operation, self.zy), Apply(operation, self.zz)))

Matrix_call(self, args) ==
  LET r == Matrix_element_wise(self, [op |-> "call", args |-> args])
  IN  IF IsExc(r) /\ r.exc = "TypeError"
      THEN Raise("TypeError", "One or more elements of this matrix is not callable.")
      ELSE r

Matrix_shape(self) == [tup |-> <<3, 3>>]

Matrix_trace(self) == add(add(self.xx, self.yy), self.zz)

\* a transpose that exchanges only xy and yx
Matrix_transpose_partial(self) ==
  Matrix(List9(self.xx, self.yx, self.xz,
               self.xy, self.yy, self.yz,
               self.zx, self.zy, self.zz))

Matrix_transpose(self) ==
  Matrix(List9(self.xx, self.yx, self.zx,
               self.xy, self.yy, self.zy,
               self.xz, self.yz, self.zz))

\* a determinant whose second cofactor has the opposite sign
Matrix_abs_wrong_sign(self) ==
  LET ixx == sub(mul(self.yy, self.zz), mul(self.zy, self.yz))
      iyx == sub(mul(self.yx, self.zz), mul(self.zx, self.yz))
      izx == sub(mul(self.yx, self.zy), mul(self.zx, self.yy))
      det == add(add(mul(self.xx, ixx), mul(self.xy, iyx)), mul(self.xz, izx))
  IN  det

Matrix_abs(self) ==
  LET ixx == sub(mul(self.yy, self.zz), mul(self.zy, self.yz))
      iyx == sub(mul(self.zx, self.yz), mul(self.yx, self.zz))
      izx == sub(mul(self.yx, self.zy), mul(self.zx, self.yy))
      det == add(add(mul(self.xx, ixx), mul(self.xy, iyx)), mul(self.xz, izx))
  IN  det

Matrix_det(self) == Matrix_abs(self)

\* the comparison of is_diagonal with the tolerance of equality, 1e-9
AbsGtTol_of_equality(v) ==
  IF IsExc(v) THEN v
  ELSE IF IsNum(v) THEN Bool(~ModLe(v, EqTolInv))
  ELSE TypeError

\* abs(v) > tol, tol = 1e-6
AbsGtTol(v) ==
  IF IsExc(v) THEN v
  ELSE IF IsNum(v) THEN Bool(~ModLe(v, DiagTolInv))
  ELSE TypeError

\* product(range(3), range(3)) without the pairs i == j, in order
OffDiagonal == <<<<0, 1>>, <<0, 2>>, <<1, 0>>, <<1, 2>>, <<2, 0>>, <<2, 1>>>>

RECURSIVE is_diagonal_loop(_, _)
is_diagonal_loop(self, n) ==
  IF n > Len(OffDiagonal) THEN True
  ELSE LET t == AbsGtTol(Matrix_getitem(self, [tup |-> OffDiagonal[n]]))
       IN  IF IsExc(t) THEN t
           ELSE IF t.bool THEN False
           ELSE is_diagonal_loop(self, n + 1)

Matrix_is_diagonal(self) == is_diagonal_loop(self, 1)

\* an inverse that divides the cofactor matrix without transposing it
Matrix_inverse_untransposed(self) ==
  LET ixx == sub(mul(self.yy, self.zz), mul(self.zy, self.yz))
      iyx == sub(mul(self.zx, self.yz), mul(self.yx, self.zz))
      izx == sub(mul(self.yx, self.zy), mul(self.zx, self.yy))
      ixy == sub(mul(self.zy, self.xz), mul(self.xy, self.zz))
      iyy == sub(mul(self.xx, self.zz), mul(self.zx, self.xz))
      izy == sub(mul(self.zx, self.xy), mul(self.xx, self.zy))
      ixz == sub(mul(self.xy, self.yz), mul(self.yy, self.xz))
      iyz == sub(mul(self.yx, self.xz), mul(self.yz, self.xx))
      izz == sub(mul(self.xx, self.yy), mul(self.yx, self.xy))
      det == add(add(mul(self.xx, ixx), mul(self.xy, iyx)), mul(self.xz, izx))
  IN  Matrix(List9(div(ixx, det), div(iyx, det), div(izx, det),
                   div(ixy, det), div(iyy, det), div(iyz, det),
                   div(ixz, det), div(izy, det), div(izz, det)))

\* an inverse that gives the zero matrix for a singular matrix
Matrix_inverse_zero_when_singular(self) ==
  LET r == Matrix_inverse_untransposed(self)
  IN  IF ~IsExc(r) THEN Matrix_transpose(r)
      ELSE IF r.exc = "ZeroDivisionError"
      THEN Matrix(List9(I(0), I(0), I(0), I(0), I(0), I(0), I(0), I(0), I(0)))
      ELSE r

Matrix_inverse(self) ==
  LET ixx == sub(mul(self.yy, self.zz), mul(self.zy, self.yz))
      iyx == sub(mul(self.zx, self.yz), mul(self.yx, self.zz))
      izx == sub(mul(self.yx, self.zy), mul(self.zx, self.yy))
      ixy == sub(mul(self.zy, self.xz), mul(self.xy, self.zz))
      iyy == sub(mul(self.xx, self.zz), mul(self.zx, self.xz))
      izy == sub(mul(self.zx, self.xy), mul(self.xx, self.zy))
      ixz == sub(mul(self.xy, self.yz), mul(self.yy, self.xz))
      iyz == sub(mul(self.yx, self.xz), mul(self.yz, self.xx))
      izz == sub(mul(self.xx, self.yy), mul(self.yx, self.xy))
      det == add(add(mul(self.xx, ixx), mul(self.xy, iyx)), mul(self.xz, izx))
  IN  Matrix(List9(div(ixx, det), div(ixy, det), div(ixz, det),
                   div(iyx, det), div(iyy, det), div(iyz, det),
                   div(izx, det), div(izy, det), div(izz, det)))

Matrix_neg(self) ==
  Matrix(List9(neg(self.xx), neg(self.xy), neg(self.xz),
               neg(self.yx), neg(self.yy), neg(self.yz),
               neg(self.zx), neg(self.zy), neg(self.zz)))

Matrix_add(self, other) ==
  Matrix(List9(
    add(self.xx, attr(other, "xx")), add(self.xy, attr(other, "xy")), add(self.xz, attr(other, "xz")),
    add(self.yx, attr(other, "yx")), add(self.yy, attr(other, "yy")), add(self.yz, attr(other, "yz")),
    add(self.zx, attr(other, "zx")), add(self.zy, attr(other, "zy")), add(self.zz, attr(other, "zz"))))

Matrix_sub(self, other) ==
  Matrix(List9(
    sub(self.xx, attr(other, "xx")), sub(self.xy, attr(other, "xy")), sub(self.xz, attr(other, "xz")),
    sub(self.yx, attr(other, "yx")), sub(self.yy, attr(other, "yy")), sub(self.yz, attr(other, "yz")),
    sub(self.zx, attr(other, "zx")), sub(self.zy, attr(other, "zy")), sub(self.zz, attr(other, "zz"))))

Matrix_mul(self, other) ==
  Matrix(List9(mul(other, self.xx), mul(other, self.xy), mul(other, self.xz),
               mul(other, self.yx), mul(other, self.yy), mul(other, self.yz),
               mul(other, self.zx), mul(other, self.zy), mul(other, self.zz)))

Matrix_rmul(self, other) == Matrix_mul(self, other)

Matrix_truediv(self, other) ==
  Matrix(List9(div(self.xx, other), div(self.xy, other), div(self.xz, other),
               div(self.yx, other), div(self.yy, other), div(self.yz, other),
               div(self.zx, other), div(self.zy, other), div(self.zz, other)))

\* a sum of products that leaves its last product out
Sum3_without_last(a, p, b, q, c, r) == add(mul(a, p), mul(b, q))

\* a*p + b*q + c*r
Sum3(a, p, b, q, c, r) == add(add(mul(a, p), mul(b, q)), mul(c, r))

Matrix_matmul(self, other) ==
  IF IsExc(other) THEN other
  ELSE IF IsInstance(other, "Vector") THEN
    Vector(List3(
      Sum3(self.xx, other.x, self.xy, other.y, self.xz, other.z),
      Sum3(self.yx, other.x, self.yy, other.y, self.yz, other.z),
      Sum3(self.zx, other.x, self.zy, other.y, self.zz, other.z)))
  ELSE IF IsInstance(other, "Matrix") THEN
    Matrix(List9(
      Sum3(self.xx, other.xx, self.xy, other.yx, self.xz, other.zx),
      Sum3(self.xx, other.xy, self.xy, other.yy, self.xz, other.zy),
      Sum3(self.xx, other.xz, self.xy, other.yz, self.xz, other.zz),
      Sum3(self.yx, other.xx, self.yy, other.yx, self.yz, other.zx),
      Sum3(self.yx, other.xy, self.yy, other.yy, self.yz, other.zy),
      Sum3(self.yx, other.xz, self.yy, other.yz, self.yz, other.zz),
      Sum3(self.zx, other.xx, self.zy, other.yx, self.zz, other.zx),
      Sum3(self.zx, other.xy, self.zy, other.yy, self.zz, other.zy),
      Sum3(self.zx, other.xz, self.zy, other.yz, self.zz, other.zz)))
  ELSE Raise("TypeError", "Can only dot product with Matrix or Vector.")

\* an identity whose last diagonal element is 0
Matrix_identity_short ==
  Matrix(List9(I(1), I(0), I(0), I(0), I(1), I(0), I(0), I(0), I(0)))

Matrix_identity ==
  Matrix(List9(I(1), I(0), I(0), I(0), I(1), I(0), I(0), I(0), I(1)))

Matrix_zeros ==
  Matrix(List9(I(0), I(0), I(0), I(0), I(0), I(0), I(0), I(0), I(0)))

\* result = Matrix.identity(); for _ in range(other): result = result @ self
RECURSIVE pow_loop(_, _, _)
pow_loop(result, self, n) ==
  IF n <= 0 \/ IsExc(result) THEN result
  ELSE pow_loop(Matrix_matmul(result, self), self, n - 1)

\* a power whose loop starts from the matrix instead of the identity
Matrix_pow_from_self(self, other) == pow_loop(self, self, other)

Matrix_pow(self, other) == pow_loop(Matrix_identity, self, other)

\* o[i][j] for an instance or nested list o
getitem2(o, i, j) == index(getitem(o, i), j)

Matrix_eq(self, other) ==
  And(inteq(len(other), I(3)),
  And(isclose(self.xx, getitem2(other, 0, 0)),
  And(isclose(self.xy, getitem2(other, 0, 1)),
  And(isclose(self.xz, getitem2(other, 0, 2)),
  And(isclose(self.yx, getitem2(other, 1, 0)),
  And(isclose(self.yy, getitem2(other, 1, 1)),
  And(isclose(self.yz, getitem2(other, 1, 2)),
  And(isclose(self.zx, getitem2(other, 2, 0)),
  And(isclose(self.zy, getitem2(other, 2, 1)),
      isclose(self.zz, getitem2(other, 2, 2)))))))))))

Matrix_dot(self, other) == Matrix_matmul(self, other)

\* a transformation whose xy element adds where it should subtract
Matrix_transformation_wrong_sign(quaternion) ==
  IF Len(quaternion.tup) # 4 THEN ValueError
  ELSE
  LET q_w == quaternion.tup[1]
      q_x == quaternion.tup[2]
      q_y == quaternion.tup[3]
      q_z == quaternion.tup[4]
      two == I(2)
      one == I(1)
  IN  Matrix(List9(
        sub(one, mul(two, add(sq(q_y), sq(q_z)))),
        mul(two, add(mul(q_x, q_y), mul(q_w, q_z))),
        mul(two, add(mul(q_x, q_z), mul(q_w, q_y))),
        mul(two, add(mul(q_x, q_y), mul(q_w, q_z))),
        sub(one, mul(two, add(sq(q_x), sq(q_z)))),
        mul(two, sub(mul(q_y, q_z), mul(q_w, q_x))),
        mul(two, sub(mul(q_x, q_z), mul(q_w, q_y))),
        mul(two, add(mul(q_y, q_z), mul(q_w, q_x))),
        sub(one, mul(two, add(sq(q_x), sq(q_y))))))

\* quaternion is a tuple (q_w, q_x, q_y, q_z) of numbers
Matrix_transformation(quaternion) ==
  IF Len(quaternion.tup) # 4 THEN ValueError
  ELSE
  LET q_w == quaternion.tup[1]
      q_x == quaternion.tup[2]
      q_y == quaternion.tup[3]
      q_z == quaternion.tup[4]
      two == I(2)
      one == I(1)
  IN  Matrix(List9(
        sub(one, mul(two, add(sq(q_y), sq(q_z)))),
        mul(two, sub(mul(q_x, q_y), mul(q_w, q_z))),
        mul(two, add(mul(q_x, q_z), mul(q_w, q_y))),
        mul(two, add(mul(q_x, q_y), mul(q_w, q_z))),
        sub(one, mul(two, add(sq(q_x), sq(q_z)))),
        mul(two, sub(mul(q_y, q_z), mul(q_w, q_x))),
        mul(two, sub(mul(q_x, q_z), mul(q_w, q_y))),
        mul(two, add(mul(q_y, q_z), mul(q_w, q_x))),
        sub(one, mul(two, add(sq(q_x), sq(q_y))))))

\* ------------------------------------------------------------------------
\* The program state: the lists and the instances a caller holds.
\*   heap  the list objects; heap[r] is the sequence of the elements of list
\*         r, an element being a number, a callable or a reference [ref] to
\*         another list (a row of a nested list)
\*   objs  the Vector and Matrix instances; objs[i] is the instance's
\*         __dict__: cls, components (a reference: __init__ keeps the list it
\*         is given), the attributes __init__ copies, and the cached
\*         properties stored so far
\*   ran   ran[i] is the set of derived values of instance i whose
\*         computation has run at least once (history, not program state)
\*   ret   what the last operation did: its name, its receiver, the value it
\*         returned or the exception it raised, whether it ran the
\*         computation of a derived value (ran) and whether that computation
\*         had run before on the same instance (again)
\*   nops  how many operations the caller has made
\* The other variables belong to the readers of one cached property (pc,
\* slot, local, made) and to the functions applied to given inputs (inp, out);
\* the call of find_two_closest_integers keeps its position in pc and its
\* variables in local.
\* ------------------------------------------------------------------------
VARIABLES heap, objs, ran, ret, nops, pc, slot, local, made, inp, out

vars == <<heap, objs, ran, ret, nops, pc, slot, local, made, inp, out>>
threadVars == <<pc, slot, local, made>>
functionVars == <<inp, out>>
instanceVars == <<heap, objs, ran, ret, nops>>

\* the most operations the caller makes in one run
MaxOps == 2

IsRef(v) == DOMAIN v = {"ref"}
IsObj(v) == DOMAIN v = {"obj"}

\* the value a reference stands for: the list with its present elements
RECURSIVE Deref(_, _)
Deref(h, v) ==
  IF IsRef(v)
  THEN [items |-> [k \in 1..Len(h[v.ref]) |-> Deref(h, h[v.ref][k])]]
  ELSE v

\* instance o as its methods see it
View(h, o) == [a \in DOMAIN o |-> IF a = "cls" THEN o[a] ELSE Deref(h, o[a])]

IsNested(lv) == \E k \in 1..Len(lv.items) : IsList(lv.items[k])

\* the heap after the list display lv is evaluated: its rows are new lists,
\* and the list itself is the last one added
AllocList(h, lv) ==
  IF IsNested(lv)
  THEN LET n == Len(lv.items)
           rows == h \o [k \in 1..n |-> lv.items[k].items]
       IN  Append(rows, [k \in 1..n |-> [ref |-> Len(h) + k]])
  ELSE Append(h, lv.items)

\* the __dict__ __init__ leaves, given the instance as the methods see it (v)
\* and the list r it was constructed from
Instance(h, v, r) ==
  IF v.cls = "Vector"
  THEN [v EXCEPT !.components = [ref |-> r]]
  ELSE [v EXCEPT !.components = [ref |-> r],
                 !.x = h[r][1], !.y = h[r][2], !.z = h[r][3]]

\* the numbers of an instance the model keeps: numerators and denominators
\* stay small enough for every later product to stay within TLC's integers
MaxMag == 150
MaxDen == 60

SmallValue(v) ==
  IsNum(v) => IAbs(v.re) <= MaxMag /\ IAbs(v.im) <= MaxMag /\ v.den <= MaxDen

Small(r) ==
  IF "cls" \notin DOMAIN r THEN TRUE
  ELSE IF r.cls = "Vector" THEN \A a \in {"x", "y", "z"} : SmallValue(r[a])
  ELSE \A a \in {"xx", "xy", "xz", "yx", "yy", "yz", "zx", "zy", "zz"} : SmallValue(r[a])

Outcome(op, i, val, didRun, again) ==
  [op |-> op, self |-> i, val |-> val, ran |-> didRun, again |-> again]

NoRet == Outcome("none", 0, False, FALSE, FALSE)

IsModelled(r) == ~(IsExc(r) /\ r.exc = "Unrepresentable") /\ Small(r)

\* an operation of instance i returns r (or raises it): an instance r is
\* constructed from the list display the method evaluated
Return(op, i, r) ==
  /\ nops < MaxOps
  /\ nops' = nops + 1
  /\ IsModelled(r)
  /\ IF "cls" \in DOMAIN r
     THEN /\ LET h == AllocList(heap, r.components)
             IN  /\ heap' = h
                 /\ objs' = Append(objs, Instance(h, r, Len(h)))
          /\ ran' = Append(ran, {})
          /\ ret' = Outcome(op, i, [obj |-> Len(objs) + 1], FALSE, FALSE)
     ELSE /\ ret' = Outcome(op, i, r, FALSE, FALSE)
          /\ UNCHANGED <<heap, objs, ran>>
  /\ UNCHANGED <<threadVars, functionVars>>

\* a __get__ that never looks at the cache: it runs func at every read
cached_property_get_uncached(i, attrname, val, also) ==
  /\ nops < MaxOps
  /\ nops' = nops + 1
  /\ IsModelled(val)
  /\ ~("cls" \in DOMAIN val)
  /\ ret' = Outcome(attrname, i, val, TRUE, attrname \in ran[i])
  /\ ran' = [ran EXCEPT ![i] = @ \cup {attrname} \cup also]
  /\ objs' = IF IsExc(val) THEN objs ELSE [objs EXCEPT ![i] = (attrname :> val) @@ @]
  /\ UNCHANGED <<heap, threadVars, functionVars>>

\* cached_property.__get__(instance i) of the property attrname, val being
\* self.func(instance) and also the other computations func runs; one read
\* after another, no other thread
cached_property_get(i, attrname, val, also) ==
  LET cache == objs[i]
      again == attrname \in ran[i]
      ran1 == [ran EXCEPT ![i] = @ \cup {attrname} \cup also]
  IN  /\ nops < MaxOps
      /\ nops' = nops + 1
      /\ IF attrname \in DOMAIN cache
         THEN /\ ret' = Outcome(attrname, i, cache[attrname], FALSE, FALSE)
              /\ UNCHANGED <<heap, objs, ran>>
         ELSE /\ IsModelled(val)
              /\ IF IsExc(val)
                 THEN /\ ret' = Outcome(attrname, i, val, TRUE, again)
                      /\ ran' = ran1
                      /\ UNCHANGED <<heap, objs>>
                 ELSE IF "cls" \in DOMAIN val
                 THEN /\ LET h == AllocList(heap, val.components)
                             new == [obj |-> Len(objs) + 1]
                         IN  /\ heap' = h
                             /\ objs' = Append([objs EXCEPT ![i] = (attrname :> new) @@ @],
                                               Instance(h, val, Len(h)))
                             /\ ret' = Outcome(attrname, i, new, TRUE, again)
                      /\ ran' = Append(ran1, {})
                 ELSE /\ objs' = [objs EXCEPT ![i] = (attrname :> val) @@ @]
                      /\ ret' = Outcome(attrname, i, val, TRUE, again)
                      /\ ran' = ran1
                      /\ UNCHANGED heap
      /\ UNCHANGED <<threadVars, functionVars>>

\* ------------------------------------------------------------------------
\* What the caller does with the instances: one action per method.
\* ------------------------------------------------------------------------

Vectors == {i \in 1..Len(objs) : objs[i].cls = "Vector"}
Matrices == {i \in 1..Len(objs) : objs[i].cls = "Matrix"}
Self(i) == View(heap, objs[i])

\* the scalars, call arguments, indices and exponents the caller passes
Scalars == {I(0), I(2)}
Args == {I(2)}
Indices == 0..2
MatrixIndices == {I(1), [tup |-> <<0, 0>>], [tup |-> <<1, 1>>], [tup |-> <<2, 1>>]}
MaxPow == 2
\* the values the caller assigns to an element of a list it holds
Assigned == {I(9)}

\* the elements the caller assigns to, as <<list, position>>: an element of
\* the list the Vector was constructed from and one of a row of the Matrix
Assignable == {<<1, 1>>, <<3, 2>>}

\* s[k] = v, by the caller, on a list r of numbers it holds
SetItem(r, k, v) ==
  /\ nops < MaxOps
  /\ nops' = nops + 1
  /\ heap[r][k] # v
  /\ heap' = [heap EXCEPT ![r][k] = v]
  /\ ret' = Outcome("setitem", 0, [ref |-> r], FALSE, FALSE)
  /\ UNCHANGED <<objs, ran, threadVars, functionVars>>

Op_Vector_getitem(i, k) == Return("Vector.__getitem__", i, Vector_getitem(Self(i), k))
Op_Vector_call(i, args) == Return("Vector.__call__", i, Vector_call(Self(i), args))
Op_Vector_unit_vector(i) ==
  cached_property_get(i, "unit_vector", Vector_unit_vector(Self(i)), {"abs"})
Op_Vector_cross_matrix(i) ==
  cached_property_get(i, "cross_matrix", Vector_cross_matrix(Self(i)), {})

\* abs(v): Vector.__abs__ is a plain method, it computes the norm at each call
Op_Vector_abs(i) ==
  LET r == Vector_abs(Self(i))
  IN  /\ IsModelled(r)
      /\ ret' = Outcome("Vector.__abs__", i, r, TRUE, "abs" \in ran[i])
      /\ ran' = [ran EXCEPT ![i] = @ \cup {"abs"}]
      /\ nops < MaxOps
      /\ nops' = nops + 1
      /\ UNCHANGED <<heap, objs, threadVars, functionVars>>

\* a negation that overwrites the receiver's components and returns it
Op_Vector_neg_in_place(i) ==
  /\ nops < MaxOps
  /\ nops' = nops + 1
  /\ IsNum(objs[i].x) /\ IsNum(objs[i].y) /\ IsNum(objs[i].z)
  /\ objs' = [objs EXCEPT ![i].x = neg(@), ![i].y = neg(@), ![i].z = neg(@)]
  /\ ret' = Outcome("Vector.__neg__", i, [obj |-> i], FALSE, FALSE)
  /\ UNCHANGED <<heap, ran, threadVars, functionVars>>

Op_Vector_neg(i) == Return("Vector.__neg__", i, Vector_neg(Self(i)))
Op_Vector_add(i, j) == Return("Vector.__add__", i, Vector_add(Self(i), Self(j)))
Op_Vector_sub(i, j) == Return("Vector.__sub__", i, Vector_sub(Self(i), Self(j)))
Op_Vector_mul(i, k) == Return("Vector.__mul__", i, Vector_mul(Self(i), k))
Op_Vector_truediv(i, k) == Return("Vector.__truediv__", i, Vector_truediv(Self(i), k))
Op_Vector_xor(i, j) == Return("Vector.__xor__", i, Vector_xor(Self(i), Self(j)))
Op_Vector_matmul(i, j) == Return("Vector.__matmul__", i, Vector_matmul(Self(i), Self(j)))
Op_Vector_eq(i, j) == Return("Vector.__eq__", i, Vector_eq(Self(i), Self(j)))
Op_Vector_element_wise(i) ==
  Return("Vector.element_wise", i, Vector_element_wise(Self(i), [op |-> "square"]))

Op_Matrix_getitem(i, args) == Return("Matrix.__getitem__", i, Matrix_getitem(Self(i), args))
Op_Matrix_call(i, args) == Return("Matrix.__call__", i, Matrix_call(Self(i), args))
Op_Matrix_trace(i) == cached_property_get(i, "trace", Matrix_trace(Self(i)), {})
Op_Matrix_transpose(i) == cached_property_get(i, "transpose", Matrix_transpose(Self(i)), {})
Op_Matrix_det(i) == cached_property_get(i, "det", Matrix_det(Self(i)), {"abs"})
Op_Matrix_is_diagonal(i) ==
  cached_property_get(i, "is_diagonal", Matrix_is_diagonal(Self(i)), {})
Op_Matrix_inverse(i) == cached_property_get(i, "inverse", Matrix_inverse(Self(i)), {})
Op_Matrix_abs(i) == Return("Matrix.__abs__", i, Matrix_abs(Self(i)))
Op_Matrix_neg(i) == Return("Matrix.__neg__", i, Matrix_neg(Self(i)))
Op_Matrix_add(i, j) == Return("Matrix.__add__", i, Matrix_add(Self(i), Self(j)))
Op_Matrix_sub(i, j) == Return("Matrix.__sub__", i, Matrix_sub(Self(i), Self(j)))
Op_Matrix_mul(i, k) == Return("Matrix.__mul__", i, Matrix_mul(Self(i), k))
Op_Matrix_truediv(i, k) == Return("Matrix.__truediv__", i, Matrix_truediv(Self(i), k))
Op_Matrix_matmul(i, j) == Return("Matrix.__matmul__", i, Matrix_matmul(Self(i), Self(j)))
Op_Matrix_pow(i, n) == Return("Matrix.__pow__", i, Matrix_pow(Self(i), n))
Op_Matrix_eq(i, j) == Return("Matrix.__eq__", i, Matrix_eq(Self(i), Self(j)))
Op_Matrix_element_wise(i) ==
  Return("Matrix.element_wise", i, Matrix_element_wise(Self(i), [op |-> "square"]))

\* the lists the caller starts with, one list of three elements (list 1) and
\* one nested list of three rows (lists 2, 3, 4 and the outer list 5), and
\* the instances it has constructed from them: v = Vector(list 1) and
\* M = Matrix(list 5)
Fn(k) == [fn |-> k]
Inputs ==
  { <<<<I(1), I(2), I(3)>>,
      <<<<I(1), I(2), I(3)>>, <<I(4), I(0), I(6)>>, <<I(7), I(8), I(9)>>>>>>,
    <<<<I(0), I(0), I(0)>>,
      <<<<I(1), I(2), I(3)>>, <<I(4), I(5), I(6)>>, <<I(7), I(8), I(9)>>>>>>,
    <<<<I(1), Cpx(0, 1), I(0)>>,
      <<<<I(1), I(0), I(0)>>, <<I(0), I(2), I(0)>>, <<I(0), I(0), I(3)>>>>>>,
    <<<<Fn(2), Fn(3), Fn(4)>>,
      <<<<Fn(1), Fn(2), Fn(3)>>, <<Fn(4), Fn(5), Fn(6)>>, <<Fn(7), Fn(8), Fn(9)>>>>>> }

InitHeap(s, m) == <<s, m[1], m[2], m[3], <<[ref |-> 2], [ref |-> 3], [ref |-> 4]>>>>

ThreadsIdle ==
  /\ pc = <<>>
  /\ slot = <<>>
  /\ local = <<>>
  /\ made = 0

FunctionsIdle ==
  /\ inp = <<>>
  /\ out = <<>>

Init ==
  /\ \E c \in Inputs :
       LET h == InitHeap(c[1], c[2])
       IN  /\ heap = h
           /\ objs = << Instance(h, Vector(Deref(h, [ref |-> 1])), 1),
                        Instance(h, Matrix(Deref(h, [ref |-> 5])), 5) >>
  /\ ran = <<{}, {}>>
  /\ ret = NoRet
  /\ nops = 0
  /\ ThreadsIdle
  /\ FunctionsIdle

Next ==
  \/ \E e \in Assignable, v \in Assigned : SetItem(e[1], e[2], v)
  \/ \E i \in Vectors, k \in Indices : Op_Vector_getitem(i, k)
  \/ \E i \in Vectors, a \in Args : Op_Vector_call(i, a)
  \/ \E i \in Vectors : Op_Vector_unit_vector(i)
  \/ \E i \in Vectors : Op_Vector_cross_matrix(i)
  \/ \E i \in Vectors : Op_Vector_abs(i)
  \/ \E i \in Vectors : Op_Vector_neg(i)
  \/ \E i \in Vectors, j \in Vectors : Op_Vector_add(i, j)
  \/ \E i \in Vectors, j \in Vectors : Op_Vector_sub(i, j)
  \/ \E i \in Vectors, k \in Scalars : Op_Vector_mul(i, k)
  \/ \E i \in Vectors, k \in Scalars : Op_Vector_truediv(i, k)
  \/ \E i \in Vectors, j \in Vectors : Op_Vector_xor(i, j)
  \/ \E i \in Vectors, j \in Vectors : Op_Vector_matmul(i, j)
  \/ \E i \in Vectors, j \in Vectors : Op_Vector_eq(i, j)
  \/ \E i \in Vectors : Op_Vector_element_wise(i)
  \/ \E i \in Matrices, a \in MatrixIndices : Op_Matrix_getitem(i, a)
  \/ \E i \in Matrices, a \in Args : Op_Matrix_call(i, a)
  \/ \E i \in Matrices : Op_Matrix_trace(i)
  \/ \E i \in Matrices : Op_Matrix_transpose(i)
  \/ \E i \in Matrices : Op_Matrix_det(i)
  \/ \E i \in Matrices : Op_Matrix_is_diagonal(i)
  \/ \E i \in Matrices : Op_Matrix_inverse(i)
  \/ \E i \in Matrices : Op_Matrix_abs(i)
  \/ \E i \in Matrices : Op_Matrix_neg(i)
  \/ \E i \in Matrices, j \in Matrices : Op_Matrix_add(i, j)
  \/ \E i \in Matrices, j \in Matrices : Op_Matrix_sub(i, j)
  \/ \E i \in Matrices, k \in Scalars : Op_Matrix_mul(i, k)
  \/ \E i \in Matrices, k \in Scalars : Op_Matrix_truediv(i, k)
  \/ \E i \in Matrices, j \in 1..Len(objs) : Op_Matrix_matmul(i, j)
  \/ \E i \in Matrices, n \in 0..MaxPow : Op_Matrix_pow(i, n)
  \/ \E i \in Matrices, j \in Matrices : Op_Matrix_eq(i, j)
  \/ \E i \in Matrices : Op_Matrix_element_wise(i)

Spec == Init /\ [][Next]_vars

\* ------------------------------------------------------------------------
\* Properties of the instances (specification Spec)
\* ------------------------------------------------------------------------

CachedNames ==
  {"unit_vector", "cross_matrix", "trace", "transpose", "det", "is_diagonal", "inverse"}

NamedAttrs(o) ==
  IF o.cls = "Vector" THEN {"x", "y", "z"}
  ELSE {"xx", "xy", "xz", "yx", "yy", "yz", "zx", "zy", "zz"}

\* the named components of instance o
Named(o) == [a \in NamedAttrs(o) |-> o[a]]

\* the last step read a cached property and was answered from the cache
CacheHit(r) == r.op \in CachedNames /\ ~r.ran

\* C1: no operation of Vector or Matrix (negate, add, subtract, scale, divide,
\* dot/matmul, cross, power, element_wise, equality, call, a read of a derived
\* property) changes the named components of an existing instance: at every
\* step every instance keeps the named components it had, no instance
\* disappears, no existing list changes unless the caller assigns to it, and
\* an instance an operation returns is never its receiver; unless the read
\* was answered from the cache, it is the one instance the step created.
C1_OperationsKeepComponents ==
  [][ /\ Len(objs') >= Len(objs)
      /\ \A i \in 1..Len(objs) : Named(objs'[i]) = Named(objs[i])
      /\ ret'.op # "setitem" => \A r \in 1..Len(heap) : heap'[r] = heap[r]
      /\ IsObj(ret'.val) =>
           /\ ret'.val.obj # ret'.self
           /\ ~CacheHit(ret') =>
                /\ ret'.val.obj = Len(objs) + 1
                /\ Len(objs') = Len(objs) + 1 ]_vars

\* C1 witness: the product M @ M returned a third instance, and M still reads
\* the components it was given
C1_Witness ==
  /\ ret.op = "Matrix.__matmul__"
  /\ ret.val = [obj |-> 3]
  /\ objs[3].cls = "Matrix"
  /\ objs[3].yy = I(81)
  /\ objs[2].yy = I(5)

Letter == <<"x", "y", "z">>

\* C2 (as claimed): in every reachable state the indexed read v[i] equals
\* the named accessor (v.x, v.y, v.z)[i], and M[i][j] and M[i, j] equal the
\* named accessor of row i, column j, whatever the caller did to the
\* sequence the instance was constructed from.
C2_IndexedReadIsNamedComponent ==
  \A i \in 1..Len(objs) :
    IF objs[i].cls = "Vector"
    THEN \A k \in 0..2 : Vector_getitem(Self(i), k) = objs[i][Letter[k + 1]]
    ELSE \A k, l \in 0..2 :
           /\ Matrix_getitem(Self(i), [tup |-> <<k, l>>])
                = objs[i][Letter[k + 1] \o Letter[l + 1]]
           /\ index(Matrix_getitem(Self(i), I(k)), l)
                = objs[i][Letter[k + 1] \o Letter[l + 1]]

\* C3 (as claimed): the computation of a cached property never runs a second
\* time on the same instance.
C3_ComputationRunsOnce == ~(ret.op \in CachedNames /\ ret.ran /\ ret.again)

\* C3 (amended): the computation of a cached property returns a value at most
\* once per instance.  Once a value is stored it stays stored unchanged, and a
\* read of that property returns the stored value without running the
\* computation; a computation that runs and returns finds nothing stored, and
\* stores what it returns; one that raises stores nothing.
C3_StoredOnceThenReturned ==
  [][ /\ \A i \in 1..Len(objs) : \A a \in CachedNames \cap DOMAIN objs[i] :
           /\ a \in DOMAIN objs'[i]
           /\ objs'[i][a] = objs[i][a]
           /\ (nops' # nops /\ ret'.op = a /\ ret'.self = i) =>
                (~ret'.ran /\ ret'.val = objs[i][a])
      /\ (nops' # nops /\ ret'.op \in CachedNames /\ ret'.ran) =>
           /\ ret'.op \notin DOMAIN objs[ret'.self]
           /\ IF IsExc(ret'.val)
              THEN ret'.op \notin DOMAIN objs'[ret'.self]
              ELSE /\ ret'.op \in DOMAIN objs'[ret'.self]
                   /\ objs'[ret'.self][ret'.op] = ret'.val ]_vars

\* C3 witness: the second read of a cached property of one instance was
\* answered with the value the first read stored
C3_Witness ==
  /\ nops = 2
  /\ CacheHit(ret)
  /\ ret.op \in DOMAIN objs[ret.self]
  /\ ret.op \in ran[ret.self]
  /\ ret.val = objs[ret.self][ret.op]

\* C4 (as claimed): over any sequence of abs(v) on one Vector the norm is
\* computed at most once.
C4_NormComputedOnce == ~(ret.op = "Vector.__abs__" /\ ret.ran /\ ret.again)

\* ------------------------------------------------------------------------
\* Several threads read one cached property of one instance at the same time
\* (specification SpecThreads).  Each thread runs cached_property.__get__; a
\* step is a statement of it.  inp is the instance and the property read,
\* slot is instance.__dict__[attrname], local[t] is the variable val of
\* thread t, made counts the values func has returned (each is a new object,
\* told from the others by its id).
\* ------------------------------------------------------------------------

\* the number of threads
MaxThreads == 2
Threads == 1..MaxThreads

\* _NOT_FOUND = object()
NOT_FOUND == [sentinel |-> TRUE]

\* self.func(instance) for the property named attrname
func(attrname, instance) ==
  CASE attrname = "unit_vector" -> Vector_unit_vector(instance)
    [] attrname = "cross_matrix" -> Vector_cross_matrix(instance)
    [] attrname = "shape" -> Matrix_shape(instance)
    [] attrname = "trace" -> Matrix_trace(instance)
    [] attrname = "transpose" -> Matrix_transpose(instance)
    [] attrname = "det" -> Matrix_det(instance)
    [] attrname = "is_diagonal" -> Matrix_is_diagonal(instance)
    [] attrname = "inverse" -> Matrix_inverse(instance)

\* val = cache.get(self.attrname, _NOT_FOUND)
get_lookup(t) ==
  /\ pc[t] = "lookup"
  /\ local' = [local EXCEPT ![t] = slot]
  /\ pc' = [pc EXCEPT ![t] = "test"]
  /\ UNCHANGED <<slot, made, instanceVars, functionVars>>

\* a test that takes whatever the lookup gave for a stored value
get_test_always_found(t) ==
  /\ pc[t] = "test"
  /\ pc' = [pc EXCEPT ![t] = "return"]
  /\ UNCHANGED <<slot, local, made, instanceVars, functionVars>>

\* if val is _NOT_FOUND:
get_test(t) ==
  /\ pc[t] = "test"
  /\ pc' = [pc EXCEPT ![t] = IF local[t] = NOT_FOUND THEN "call" ELSE "return"]
  /\ UNCHANGED <<slot, local, made, instanceVars, functionVars>>

\* val = self.func(instance); an exception leaves __get__
get_call(t) ==
  /\ pc[t] = "call"
  /\ LET val == func(inp.attrname, inp.instance)
     IN  IF IsExc(val)
         THEN /\ local' = [local EXCEPT ![t] = val]
              /\ pc' = [pc EXCEPT ![t] = "raised"]
              /\ UNCHANGED made
         ELSE /\ local' = [local EXCEPT ![t] = [id |-> made + 1, val |-> val]]
              /\ pc' = [pc EXCEPT ![t] = "store"]
              /\ made' = made + 1
  /\ UNCHANGED <<slot, instanceVars, functionVars>>

\* cache[self.attrname] = val
get_store(t) ==
  /\ pc[t] = "store"
  /\ slot' = local[t]
  /\ pc' = [pc EXCEPT ![t] = "return"]
  /\ UNCHANGED <<local, made, instanceVars, functionVars>>

\* return val
get_return(t) ==
  /\ pc[t] = "return"
  /\ pc' = [pc EXCEPT ![t] = "returned"]
  /\ UNCHANGED <<slot, local, made, instanceVars, functionVars>>

\* the instances and properties read: the two instances of each run of Spec
\* with each of their cached properties
ThreadInputs ==
  UNION { { [instance |-> Vector([items |-> c[1]]), attrname |-> a] :
              a \in {"unit_vector", "cross_matrix"} }
          \cup
          { [instance |-> Matrix([items |-> [k \in 1..3 |-> [items |-> c[2][k]]]]),
             attrname |-> a] :
              a \in {"shape", "trace", "transpose", "det", "is_diagonal", "inverse"} }
        : c \in Inputs }

InstancesIdle ==
  /\ heap = <<>>
  /\ objs = <<>>
  /\ ran = <<>>
  /\ ret = NoRet
  /\ nops = 0

InitThreads ==
  /\ inp \in ThreadInputs
  /\ out = <<>>
  /\ pc = [t \in Threads |-> "lookup"]
  /\ slot = NOT_FOUND
  /\ local = [t \in Threads |-> NOT_FOUND]
  /\ made = 0
  /\ InstancesIdle

NextThreads ==
  \/ \E t \in Threads : get_lookup(t)
  \/ \E t \in Threads : get_test(t)
  \/ \E t \in Threads : get_call(t)
  \/ \E t \in Threads : get_store(t)
  \/ \E t \in Threads : get_return(t)

SpecThreads == InitThreads /\ [][NextThreads]_vars

MaxComp == 1
Comps == {I(k) : k \in (-MaxComp)..MaxComp}

\* 1e-7, below the tolerance of is_diagonal
Tiny == Rat(1, 10 * DiagTolInv)

\* vectors: every vector of small integers, the vectors of the docstrings, and
\* vectors with rational and complex components
VectorInputs ==
  (Comps \X Comps \X Comps)
  \cup { <<I(1), I(2), I(3)>>, <<I(1), I(7), I(3)>>, <<I(2), I(5), I(6)>>,
         <<I(3), I(4), I(0)>>, <<Rat(1, 2), I(0), Rat(3, 2)>>,
         <<I(1), Cpx(0, 1), I(0)>>, <<Cpx(0, 1), I(0), I(0)>>,
         <<Cpx(1, 1), I(2), Cpx(0, -1)>> }

\* matrices: every matrix with rows among six small ones, the matrices of the
\* docstrings (singular, non-singular, diagonal, nearly diagonal), and matrices
\* with rational, complex and callable components
Rows ==
  { <<I(1), I(0), I(0)>>, <<I(0), I(1), I(0)>>, <<I(0), I(0), I(1)>>,
    <<I(1), I(1), I(0)>>, <<I(0), I(-1), I(2)>>, <<I(2), I(0), I(1)>> }

MatrixInputs ==
  (Rows \X Rows \X Rows)
  \cup { <<<<I(1), I(2), I(3)>>, <<I(4), I(5), I(6)>>, <<I(7), I(8), I(9)>>>>,
         <<<<I(1), I(2), I(3)>>, <<I(4), I(0), I(6)>>, <<I(7), I(8), I(9)>>>>,
         <<<<I(1), I(0), I(0)>>, <<I(0), I(2), I(0)>>, <<I(0), I(0), I(3)>>>>,
         <<<<I(1), I(0), I(0)>>, <<I(0), I(0), I(0)>>, <<I(0), I(0), I(3)>>>>,
         <<<<I(1), I(0), I(0)>>, <<I(0), I(2), I(0)>>, <<I(0), Tiny, I(3)>>>>,
         <<<<I(1), I(0), I(0)>>, <<I(0), I(2), I(0)>>, <<Tiny, Tiny, I(3)>>>>,
         <<<<Rat(1, 2), I(0), I(0)>>, <<I(1), Rat(2, 3), I(0)>>, <<I(0), I(0), I(3)>>>>,
         <<<<Cpx(0, 1), I(0), I(0)>>, <<I(0), I(1), I(0)>>, <<I(1), I(0), I(2)>>>>,
         <<<<Cpx(1, 1), I(0), I(0)>>, <<I(0), Cpx(0, 2), I(0)>>, <<I(0), I(0), I(1)>>>>,
         <<<<Fn(1), Fn(2), Fn(3)>>, <<Fn(4), Fn(5), Fn(6)>>, <<Fn(7), Fn(8), Fn(9)>>>> }

\* Vector(c) and Matrix(c) for a literal c
NewVector(c) == Vector([items |-> c])
NewMatrix(c) == Matrix([items |-> [k \in 1..3 |-> [items |-> c[k]]]])

\* quaternions: every 4-tuple of small integers, unit and non-unit tuples with
\* rational and complex elements, and tuples that are too short and too long
QuaternionInputs ==
  (Comps \X Comps \X Comps \X Comps)
  \cup { <<Rat(1, 2), Rat(1, 2), Rat(1, 2), Rat(1, 2)>>,
         <<Rat(3, 5), I(0), I(0), Rat(4, 5)>>,
         <<I(0), I(0), I(0), I(2)>>, <<I(1), I(2), I(3), I(4)>>,
         <<I(0), Cpx(0, 1), I(1), I(0)>>,
         <<I(1), I(0), I(0)>>, <<I(1), I(0), I(0), I(0), I(0)>> }

\* a list, and a nested list, from its elements
ListOf(c) == [items |-> c]
NestedListOf(c) == [items |-> [k \in 1..Len(c) |-> [items |-> c[k]]]]

\* what a constructor is given: every list of three elements and every nested
\* list of three rows of three above, and inputs of other shapes (lists that
\* are too short or too long, nested lists with a row or a column missing or
\* added, a nested list of three rows given to Vector, a number)
WrongShapes ==
  { ListOf(<<>>), ListOf(<<I(1)>>), ListOf(<<I(1), I(2)>>),
    ListOf(<<I(1), I(2), I(3), I(4)>>),
    NestedListOf(<<<<I(1), I(2), I(3)>>, <<I(4), I(5), I(6)>>>>),
    NestedListOf(<<<<I(1), I(2)>>, <<I(4), I(5)>>, <<I(7), I(8)>>>>),
    NestedListOf(<<<<I(1), I(2), I(3)>>, <<I(4), I(5), I(6), I(0)>>, <<I(7), I(8), I(9)>>>>),
    NestedListOf(<<<<I(1), I(2), I(3)>>, <<I(4), I(5), I(6)>>, <<I(7), I(8), I(9)>>,
                   <<I(1), I(1), I(1)>>>>),
    I(5) }

ConstructorInputs ==
  { ListOf(c) : c \in VectorInputs }
  \cup { NestedListOf(c) : c \in MatrixInputs }
  \cup WrongShapes

\* the operands of a binary operation: the receiver is one of a few vectors
\* and matrices, and the other operand is one of them, a number, a list or a
\* nested list
OperandVectors ==
  { NewVector(c) : c \in { <<I(1), I(2), I(3)>>, <<I(2), I(5), I(6)>>, <<I(0), I(0), I(0)>>,
                           <<I(-1), I(0), I(1)>>, <<Rat(1, 2), I(0), Rat(3, 2)>>,
                           <<I(1), Cpx(0, 1), I(0)>> } }

OperandMatrices ==
  { NewMatrix(c) : c \in
      { <<<<I(1), I(2), I(3)>>, <<I(4), I(5), I(6)>>, <<I(7), I(8), I(9)>>>>,
        <<<<I(1), I(2), I(3)>>, <<I(4), I(0), I(6)>>, <<I(7), I(8), I(9)>>>>,
        <<<<I(1), I(0), I(0)>>, <<I(0), I(2), I(0)>>, <<I(0), I(0), I(3)>>>>,
        <<<<I(0), I(-1), I(2)>>, <<I(2), I(0), I(1)>>, <<I(1), I(1), I(0)>>>>,
        <<<<Rat(1, 2), I(0), I(0)>>, <<I(1), Rat(2, 3), I(0)>>, <<I(0), I(0), I(3)>>>>,
        <<<<Cpx(0, 1), I(0), I(0)>>, <<I(0), I(1), I(0)>>, <<I(1), I(0), I(2)>>>> } }

OtherOperands ==
  OperandVectors \cup OperandMatrices
  \cup { I(2), Rat(1, 2), ListOf(<<I(1), I(2), I(3)>>),
         NestedListOf(<<<<I(1), I(0), I(0)>>, <<I(0), I(1), I(0)>>, <<I(0), I(0), I(1)>>>>) }

\* the scalars a vector or a matrix is multiplied and divided by
ScalarInputs == {I(0), I(2), Rat(-1, 2), Cpx(0, 1)}

\* operands of ==: components that differ by the tolerance 1e-9 and by twice
\* and three times it, by 1e-9 along the imaginary axis, and by 1e-6 at
\* magnitude 2000
Tol == Rat(1, EqTolInv)
EqVectorInputs ==
  {I(0), Tol, Rat(2, EqTolInv), Rat(-1, EqTolInv)}
  \X {I(1), Num(EqTolInv, 1, EqTolInv)}
  \X {I(2000), Num(2000 * DiagTolInv + 1, 0, DiagTolInv)}

\* the matrix [[0, 1, 2], [1, 2, 0], [2, 0, 1]] with d added at row r, column c
Perturbed(r, c, d) ==
  [i \in 1..3 |-> [j \in 1..3 |->
     IF i = r /\ j = c THEN NumAdd(I((i + j - 2) % 3), d) ELSE I((i + j - 2) % 3)]]
EqMatrixInputs ==
  { Perturbed(r, c, d) : r \in 1..3, c \in 1..3, d \in {I(0), Tol, Rat(2, EqTolInv)} }

\* exponents of **: -1 (range(-1) is empty), 0 and the positive ones to MaxPow
Exponents == (-1)..MaxPow

\* receivers of is_diagonal: one off-diagonal element (or all six) at 1e-7,
\* at the tolerance 1e-6 (positive, negative, and complex of modulus 1e-6),
\* above it (2e-6, 1e-5, 1), or not a number, over a diagonal of zeros, of
\* numbers, and of callables
DiagTol == Rat(1, DiagTolInv)
OffDiagonalValues ==
  { Tiny, DiagTol, Rat(-1, DiagTolInv), Num(3, 4, 5 * DiagTolInv),
    Rat(2, DiagTolInv), Rat(10, DiagTolInv), Cpx(0, 1), [fn |-> 1] }
Diagonals ==
  { <<I(0), I(0), I(0)>>, <<I(1), I(2), I(3)>>, <<[fn |-> 1], [fn |-> 2], [fn |-> 3]>> }
WithOffDiagonal(d, p, e) ==
  [i \in 1..3 |-> [j \in 1..3 |->
     IF i = j THEN d[i]
     ELSE IF p = 0 \/ OffDiagonal[p] = <<i - 1, j - 1>> THEN e ELSE I(0)]]
DiagonalInputs ==
  { WithOffDiagonal(d, p, e) :
      d \in Diagonals, p \in 0..Len(OffDiagonal), e \in OffDiagonalValues }

\* callees of __call__: every vector of the callables x**0, x**2, x**3 and the
\* number 5, the matrix of the docstring (x**1 .. x**9), that matrix with the
\* number 5 in one position, and a matrix of numbers
CallVectorInputs ==
  {Fn(0), Fn(2), Fn(3), I(5)}
  \X {Fn(0), Fn(2), Fn(3), I(5)}
  \X {Fn(0), Fn(2), Fn(3), I(5)}
CallMatrixInputs ==
  { [i \in 1..3 |-> [j \in 1..3 |->
       IF p = 3 * i + j - 3 \/ p = 10 THEN I(5) ELSE Fn(3 * i + j - 3)]] :
    p \in 0..10 }

\* pairs for is_parallel_to and is_orthogonal_to whose products fall on and
\* around the tolerance 1e-9: a vector of small integers with a vector whose
\* components are 0, 1, 1e-9, -1e-9 and 2e-9, in both orders
WholeVectors == {I(0), I(1), I(2)} \X {I(0), I(1)} \X {I(0), I(1)}
NearVectors ==
  {I(0), I(1), Tol, Rat(2, EqTolInv)} \X {I(0), Tol, Rat(-1, EqTolInv)} \X {I(0), Tol}
NearPairs ==
  { [u |-> NewVector(c[1]), v |-> NewVector(c[2]), near |-> TRUE] :
      c \in (WholeVectors \X NearVectors) \cup (NearVectors \X WholeVectors) }

FunctionInputs ==
  { [u |-> NewVector(c[1]), v |-> NewVector(c[2])] : c \in VectorInputs \X VectorInputs }
  \cup { [M |-> NewMatrix(c)] : c \in MatrixInputs }
  \cup { [quaternion |-> [tup |-> q]] : q \in QuaternionInputs }
  \cup { [components |-> c] : c \in ConstructorInputs }
  \cup { [self |-> s, other |-> o] :
           s \in OperandVectors \cup OperandMatrices, o \in OtherOperands }
  \cup { [a |-> NewVector(t[1]), b |-> NewVector(t[2]), c |-> NewVector(t[3])] :
           t \in EqVectorInputs \X EqVectorInputs \X EqVectorInputs }
  \cup { [a |-> NewMatrix(t[1]), b |-> NewMatrix(t[2]), c |-> NewMatrix(t[3])] :
           t \in EqMatrixInputs \X EqMatrixInputs \X EqMatrixInputs }
  \cup { [base |-> NewMatrix(c), n |-> k] : c \in MatrixInputs, k \in Exponents }
  \cup { [D |-> NewMatrix(c)] : c \in DiagonalInputs }
  \cup { [callee |-> NewVector(c), args |-> a] : c \in CallVectorInputs, a \in ScalarInputs }
  \cup { [callee |-> NewMatrix(c), args |-> a] : c \in CallMatrixInputs, a \in ScalarInputs }
  \cup NearPairs

OnVectors == DOMAIN inp = {"u", "v"}
OnMatrix == DOMAIN inp = {"M"}

InitFunctions ==
  /\ inp \in FunctionInputs
  /\ out = <<>>
  /\ pc = <<>>
  /\ slot = <<>>
  /\ local = <<>>
  /\ made = 0
  /\ InstancesIdle

\* out = v once the method named op has been applied to inp
Applied(op, v) ==
  /\ out = <<>>
  /\ out' = [op |-> op, val |-> v]
  /\ UNCHANGED <<inp, instanceVars, threadVars>>

\* abs(u)
Apply_Vector_abs == OnVectors /\ Applied("Vector.__abs__", Vector_abs(inp.u))

\* u.cross(v) and -(v.cross(u))
Apply_Vector_cross ==
  /\ OnVectors
  /\ Applied("Vector.cross", [uv |-> Vector_cross(inp.u, inp.v),
                               vu |-> Vector_neg(Vector_cross(inp.v, inp.u))])

\* u.dot(v) and v.dot(u)
Apply_Vector_dot ==
  /\ OnVectors
  /\ Applied("Vector.dot", [uv |-> Vector_dot(inp.u, inp.v),
                             vu |-> Vector_dot(inp.v, inp.u)])

\* M.det, abs(M), M.is_diagonal, M.inverse and M @ M.inverse
Apply_Matrix_det == OnMatrix /\ Applied("Matrix.det", Matrix_det(inp.M))
Apply_Matrix_abs == OnMatrix /\ Applied("Matrix.__abs__", Matrix_abs(inp.M))
Apply_Matrix_is_diagonal ==
  OnMatrix /\ Applied("Matrix.is_diagonal", Matrix_is_diagonal(inp.M))
Apply_Matrix_inverse == OnMatrix /\ Applied("Matrix.inverse", Matrix_inverse(inp.M))
Apply_inverse_product ==
  /\ OnMatrix
  /\ Applied("M @ M.inverse", Matrix_matmul(inp.M, Matrix_inverse(inp.M)))

\* u.cross_matrix, u.cross_matrix @ v and u.cross(v)
Apply_cross_matrix_product ==
  /\ OnVectors
  /\ Applied("u.cross_matrix @ v",
             [cm |-> Vector_cross_matrix(inp.u),
              prod |-> Matrix_matmul(Vector_cross_matrix(inp.u), inp.v),
              cross |-> Vector_cross(inp.u, inp.v)])

\* Vector.i().cross(Vector.j()) and Vector.k()
Apply_i_cross_j ==
  /\ OnVectors
  /\ Applied("Vector.i().cross(Vector.j())",
             [ij |-> Vector_cross(Vector_i, Vector_j), k |-> Vector_k])

OnQuaternion == DOMAIN inp = {"quaternion"}

\* M @ Matrix.identity() and Matrix.identity() @ M
Apply_identity_product ==
  /\ OnMatrix
  /\ Applied("M @ Matrix.identity()",
             [right |-> Matrix_matmul(inp.M, Matrix_identity),
              left |-> Matrix_matmul(Matrix_identity, inp.M)])

\* M.transpose and M.transpose.transpose
Apply_Matrix_transpose ==
  /\ OnMatrix
  /\ Applied("Matrix.transpose",
             [t |-> Matrix_transpose(inp.M),
              tt |-> Matrix_transpose(Matrix_transpose(inp.M))])

\* Matrix.transformation(quaternion)
Apply_Matrix_transformation ==
  /\ OnQuaternion
  /\ Applied("Matrix.transformation", Matrix_transformation(inp.quaternion))

OnComponents == DOMAIN inp = {"components"}

\* v = Vector(components), then v.x, v.y, v.z and v[0], v[1], v[2]
Apply_Vector_init ==
  /\ OnComponents
  /\ LET v == Vector(inp.components)
     IN  Applied("Vector", [self |-> v,
                            named |-> <<attr(v, "x"), attr(v, "y"), attr(v, "z")>>,
                            indexed |-> [i \in 1..3 |-> getitem(v, i - 1)]])

\* M = Matrix(components), then M.xx, ..., M.zz, M[i][j] and M[i, j]
Apply_Matrix_init ==
  /\ OnComponents
  /\ LET M == Matrix(inp.components)
     IN  Applied("Matrix",
           [self |-> M,
            named |-> [r \in 1..3 |-> [c \in 1..3 |->
                         IF IsExc(M) THEN M ELSE M[<<<<"xx", "xy", "xz">>,
                                                     <<"yx", "yy", "yz">>,
                                                     <<"zx", "zy", "zz">>>>[r][c]]]],
            rows |-> [r \in 1..3 |-> [c \in 1..3 |->
                         IF IsExc(M) THEN M ELSE index(Matrix_getitem(M, I(r - 1)), c - 1)]],
            pairs |-> [r \in 1..3 |-> [c \in 1..3 |->
                         IF IsExc(M) THEN M
                         ELSE Matrix_getitem(M, [tup |-> <<r - 1, c - 1>>])]]])

OnOperands == DOMAIN inp = {"self", "other"}

\* self @ other for a matrix self
Apply_Matrix_matmul ==
  /\ OnOperands
  /\ IsInstance(inp.self, "Matrix")
  /\ Applied("Matrix.__matmul__", Matrix_matmul(inp.self, inp.other))

\* self + other, self - other, self.dot(other) and self.cross(other) for a
\* vector self
Apply_Vector_operand ==
  /\ OnOperands
  /\ IsInstance(inp.self, "Vector")
  /\ Applied("Vector + - dot cross",
             [add |-> Vector_add(inp.self, inp.other),
              sub |-> Vector_sub(inp.self, inp.other),
              dot |-> Vector_dot(inp.self, inp.other),
              cross |-> Vector_cross(inp.self, inp.other)])

\* u * k and u / k
Apply_Vector_scale(k) ==
  /\ OnVectors
  /\ Applied("Vector * k, / k",
             [k |-> k, mul |-> Vector_mul(inp.u, k), div |-> Vector_truediv(inp.u, k)])

\* M * k and M / k
Apply_Matrix_scale(k) ==
  /\ OnMatrix
  /\ Applied("Matrix * k, / k",
             [k |-> k, mul |-> Matrix_mul(inp.M, k), div |-> Matrix_truediv(inp.M, k)])

\* u.unit_vector, where the magnitude of u is a number of the model
Apply_Vector_unit_vector ==
  /\ OnVectors
  /\ ~IsIrr(Vector_abs(inp.u))
  /\ Applied("Vector.unit_vector", Vector_unit_vector(inp.u))

OnTriple == DOMAIN inp = {"a", "b", "c"}
Apply_Vector_eq ==
  /\ OnTriple
  /\ IsInstance(inp.a, "Vector")
  /\ Applied("Vector.__eq__",
             [ab |-> Vector_eq(inp.a, inp.b), ba |-> Vector_eq(inp.b, inp.a),
              bc |-> Vector_eq(inp.b, inp.c), ac |-> Vector_eq(inp.a, inp.c),
              aa |-> Vector_eq(inp.a, inp.a)])
Apply_Matrix_eq ==
  /\ OnTriple
  /\ IsInstance(inp.a, "Matrix")
  /\ Applied("Matrix.__eq__",
             [ab |-> Matrix_eq(inp.a, inp.b), ba |-> Matrix_eq(inp.b, inp.a),
              bc |-> Matrix_eq(inp.b, inp.c), ac |-> Matrix_eq(inp.a, inp.c),
              aa |-> Matrix_eq(inp.a, inp.a)])

OnPower == DOMAIN inp = {"base", "n"}
Apply_Matrix_pow ==
  /\ OnPower
  /\ LET p == Matrix_pow(inp.base, inp.n)
     IN  Applied("Matrix.__pow__",
                 [pow |-> p,
                  next |-> Matrix_pow(inp.base, inp.n + 1),
                  right |-> IF IsExc(p) THEN p ELSE Matrix_matmul(p, inp.base),
                  left |-> IF IsExc(p) THEN p ELSE Matrix_matmul(inp.base, p)])

OnNearDiagonal == DOMAIN inp = {"D"}
Apply_is_diagonal_near_tol ==
  OnNearDiagonal /\ Applied("Matrix.is_diagonal near tol", Matrix_is_diagonal(inp.D))

OnCall == DOMAIN inp = {"callee", "args"}
Apply_Vector_call ==
  /\ OnCall
  /\ IsInstance(inp.callee, "Vector")
  /\ Applied("Vector.__call__", Vector_call(inp.callee, inp.args))
Apply_Matrix_call ==
  /\ OnCall
  /\ IsInstance(inp.callee, "Matrix")
  /\ Applied("Matrix.__call__", Matrix_call(inp.callee, inp.args))

OnNearPair == DOMAIN inp = {"u", "v", "near"}
Apply_Vector_is_parallel_to ==
  /\ OnVectors \/ OnNearPair
  /\ Applied("Vector.is_parallel_to",
             [uv |-> Vector_is_parallel_to(inp.u, inp.v),
              vu |-> Vector_is_parallel_to(inp.v, inp.u),
              zu |-> Vector_is_parallel_to(Vector_zeros, inp.u),
              uz |-> Vector_is_parallel_to(inp.u, Vector_zeros)])

Apply_Vector_is_orthogonal_to ==
  /\ OnVectors \/ OnNearPair
  /\ Applied("Vector.is_orthogonal_to",
             [uv |-> Vector_is_orthogonal_to(inp.u, inp.v),
              vu |-> Vector_is_orthogonal_to(inp.v, inp.u)])

NextFunctions ==
  \/ Apply_Vector_abs
  \/ Apply_Vector_cross
  \/ Apply_Vector_dot
  \/ Apply_Matrix_det
  \/ Apply_Matrix_abs
  \/ Apply_Matrix_is_diagonal
  \/ Apply_Matrix_inverse
  \/ Apply_inverse_product
  \/ Apply_cross_matrix_product
  \/ Apply_i_cross_j
  \/ Apply_identity_product
  \/ Apply_Matrix_transpose
  \/ Apply_Matrix_transformation
  \/ Apply_Vector_init
  \/ Apply_Matrix_init
  \/ Apply_Matrix_matmul
  \/ Apply_Vector_operand
  \/ \E k \in ScalarInputs : Apply_Vector_scale(k)
  \/ \E k \in ScalarInputs : Apply_Matrix_scale(k)
  \/ Apply_Vector_unit_vector
  \/ Apply_Vector_eq
  \/ Apply_Matrix_eq
  \/ Apply_Matrix_pow
  \/ Apply_is_diagonal_near_tol
  \/ Apply_Vector_call
  \/ Apply_Matrix_call
  \/ Apply_Vector_is_parallel_to
  \/ Apply_Vector_is_orthogonal_to

SpecFunctions == InitFunctions /\ [][NextFunctions]_vars

\* ------------------------------------------------------------------------
\* Properties of the methods as functions (SpecFunctions)
\* ------------------------------------------------------------------------

Names9 == <<<<"xx", "xy", "xz">>, <<"yx", "yy", "yz">>, <<"zx", "zy", "zz">>>>
Numeric(M) == \A r \in 1..3, c \in 1..3 : IsNum(M[Names9[r][c]])
Did(op) == out # <<>> /\ out.op = op

\* the first-row cofactor expansion of the determinant of M
CofactorExpansion(M) ==
  add(sub(mul(M.xx, sub(mul(M.yy, M.zz), mul(M.zy, M.yz))),
          mul(M.xy, sub(mul(M.yx, M.zz), mul(M.zx, M.yz)))),
      mul(M.xz, sub(mul(M.yx, M.zy), mul(M.zx, M.yy))))

\* the adjugate of M: its entry (r, c) is the cofactor of the entry (c, r),
\* the determinant of M without row c and column r, negated when r + c is odd
Others(k) == IF k = 1 THEN <<2, 3>> ELSE IF k = 2 THEN <<1, 3>> ELSE <<1, 2>>
Minor(M, r, c) ==
  LET rs == Others(r)
      cs == Others(c)
  IN  sub(mul(M[Names9[rs[1]][cs[1]]], M[Names9[rs[2]][cs[2]]]),
          mul(M[Names9[rs[1]][cs[2]]], M[Names9[rs[2]][cs[1]]]))
Adjugate(M, r, c) ==
  IF (r + c) % 2 = 0 THEN Minor(M, c, r) ELSE neg(Minor(M, c, r))
AdjugateMatrix(M) ==
  Matrix(List9(Adjugate(M, 1, 1), Adjugate(M, 1, 2), Adjugate(M, 1, 3),
               Adjugate(M, 2, 1), Adjugate(M, 2, 2), Adjugate(M, 2, 3),
               Adjugate(M, 3, 1), Adjugate(M, 3, 2), Adjugate(M, 3, 3)))

NonSingular(M) == Numeric(M) /\ ~IsZero(CofactorExpansion(M))

\* C6: for every non-singular M, M @ M.inverse is a matrix that == finds equal
\* to Matrix.identity() (each of the 9 positions within 1e-9; in the exact
\* arithmetic of the model it is the identity itself); M.inverse is the
\* adjugate of M divided by det(M), and M @ adjugate(M) is det(M) * identity.
C6_InverseProductIsIdentity ==
  /\ (Did("M @ M.inverse") /\ NonSingular(inp.M)) =>
       /\ IsInstance(out.val, "Matrix")
       /\ Matrix_eq(out.val, Matrix_identity) = True
       /\ \A r \in 1..3, c \in 1..3 :
            out.val[Names9[r][c]] = IF r = c THEN I(1) ELSE I(0)
  /\ (Did("Matrix.inverse") /\ NonSingular(inp.M)) =>
       /\ IsInstance(out.val, "Matrix")
       /\ \A r \in 1..3, c \in 1..3 :
            out.val[Names9[r][c]] = div(Adjugate(inp.M, r, c), CofactorExpansion(inp.M))
       /\ Matrix_matmul(inp.M, AdjugateMatrix(inp.M))
            = Matrix_rmul(Matrix_identity, CofactorExpansion(inp.M))

\* C6 witness: the product was taken for the non-singular matrix of the
\* docstrings, and for a matrix with complex components
C6_Witness ==
  /\ Did("M @ M.inverse")
  /\ inp.M \in { NewMatrix(<<<<I(1), I(2), I(3)>>, <<I(4), I(0), I(6)>>, <<I(7), I(8), I(9)>>>>),
                 NewMatrix(<<<<Cpx(0, 1), I(0), I(0)>>, <<I(0), I(1), I(0)>>, <<I(1), I(0), I(2)>>>>) }
  /\ NonSingular(inp.M)
  /\ out.val.xx = I(1) /\ out.val.zx = I(0)

\* the matrix with 1/xx, 1/yy, 1/zz on its diagonal and zeros elsewhere
Reciprocals(M) ==
  Matrix(List9(div(I(1), M.xx), I(0), I(0),
               I(0), div(I(1), M.yy), I(0),
               I(0), I(0), div(I(1), M.zz)))

\* C7: whenever is_diagonal is true for M, M.inverse is the matrix of the
\* reciprocals of the diagonal, with zeros elsewhere.
C7_DiagonalFastPath ==
  (Did("Matrix.inverse") /\ Matrix_is_diagonal(inp.M) = True)
    => out.val = Reciprocals(inp.M)

\* C8: M.det and abs(M) are the first-row cofactor expansion; it is the value
\* inverse divides by (inverse raises ZeroDivisionError exactly when it is 0,
\* and otherwise every entry of M.inverse times it is the entry of the
\* adjugate); the determinant of [[1,2,3],[4,5,6],[7,8,9]] is 0.
C8_DeterminantIsCofactorExpansion ==
  /\ (Did("Matrix.det") \/ Did("Matrix.__abs__")) =>
       /\ out.val = CofactorExpansion(inp.M)
       /\ inp.M = NewMatrix(<<<<I(1), I(2), I(3)>>, <<I(4), I(5), I(6)>>, <<I(7), I(8), I(9)>>>>)
            => out.val = I(0)
  /\ (Did("Matrix.inverse") /\ Numeric(inp.M)) =>
       IF IsZero(CofactorExpansion(inp.M))
       THEN out.val = ZeroDivisionError
       ELSE /\ IsInstance(out.val, "Matrix")
            /\ \A r \in 1..3, c \in 1..3 :
                 mul(out.val[Names9[r][c]], CofactorExpansion(inp.M)) = Adjugate(inp.M, r, c)

\* C8 witness: the determinant of the singular matrix of the docstring was
\* read, and it is 0
C8_Witness ==
  /\ Did("Matrix.det")
  /\ inp.M.x = [items |-> <<I(1), I(2), I(3)>>]
  /\ inp.M.y = [items |-> <<I(4), I(5), I(6)>>]
  /\ inp.M.z = [items |-> <<I(7), I(8), I(9)>>]
  /\ out.val = I(0)

\* m >= 0 for a magnitude m: a real number that is not negative, or the
\* square root of a positive real number
NonNegative(m) ==
  \/ IsReal(m) /\ m.re >= 0
  \/ IsIrr(m) /\ m.irr.im = 0 /\ m.irr.re > 0
ZeroVector(v) == IsZero(v.x) /\ IsZero(v.y) /\ IsZero(v.z)
RealVector(v) == IsReal(v.x) /\ IsReal(v.y) /\ IsReal(v.z)

\* C9: for every vector v, with real or complex components, abs(v) >= 0, and
\* abs(v) == 0 if and only if v is (0, 0, 0).
C9_MagnitudeZeroIffZeroVector ==
  Did("Vector.__abs__") =>
    /\ NonNegative(out.val)
    /\ IsZero(out.val) <=> ZeroVector(inp.u)

\* C9, for real components: for every vector v with real components,
\* abs(v) >= 0, and abs(v) == 0 if and only if v is (0, 0, 0).  With complex
\* components the direct squares can cancel or be negative: abs of (1, 1j, 0)
\* is 0, and abs of (1j, 0, 0) is 1j.
C9_RealMagnitudeZeroIffZeroVector ==
  /\ (Did("Vector.__abs__") /\ RealVector(inp.u)) =>
       /\ NonNegative(out.val)
       /\ IsZero(out.val) <=> ZeroVector(inp.u)
  /\ (Did("Vector.__abs__") /\ inp.u = NewVector(<<I(1), Cpx(0, 1), I(0)>>)) =>
       out.val = I(0)
  /\ (Did("Vector.__abs__") /\ inp.u = NewVector(<<Cpx(0, 1), I(0), I(0)>>)) =>
       out.val = Cpx(0, 1)

\* C9 witness: the magnitude of (3, 4, 0) was taken, and it is 5
C9_Witness ==
  /\ Did("Vector.__abs__")
  /\ inp.u = NewVector(<<I(3), I(4), I(0)>>)
  /\ out.val = I(5)

\* C10: for all vectors u, v, u.cross(v) == -(v.cross(u)) is true (and the
\* two have the same components), and u.dot(v) is v.dot(u).
C10_CrossAnticommutesDotCommutes ==
  /\ Did("Vector.cross") =>
       /\ IsInstance(out.val.uv, "Vector")
       /\ IsInstance(out.val.vu, "Vector")
       /\ Vector_eq(out.val.uv, out.val.vu) = True
       /\ \A a \in {"x", "y", "z"} : out.val.uv[a] = out.val.vu[a]
  /\ Did("Vector.dot") =>
       /\ IsNum(out.val.uv)
       /\ out.val.uv = out.val.vu

\* C10 witness: the cross product of (1, 2, 3) and (2, 5, 6) was taken both
\* ways, and it is (-3, 0, 1)
C10_Witness ==
  /\ Did("Vector.cross")
  /\ inp.u = NewVector(<<I(1), I(2), I(3)>>)
  /\ inp.v = NewVector(<<I(2), I(5), I(6)>>)
  /\ out.val.uv.x = I(-3) /\ out.val.uv.y = I(0) /\ out.val.uv.z = I(1)

XYZ == {"x", "y", "z"}

\* C11: for all vectors u, v, u.cross_matrix @ v is a vector that == finds
\* equal to u.cross(v) (and has the same components), and u.cross_matrix is
\* [[0, -z, y], [z, 0, -x], [-y, x, 0]], whose transpose is its negation.
C11_CrossMatrixProductIsCross ==
  Did("u.cross_matrix @ v") =>
    /\ IsInstance(out.val.prod, "Vector")
    /\ Vector_eq(out.val.cross, out.val.prod) = True
    /\ \A a \in XYZ : out.val.prod[a] = out.val.cross[a]
    /\ out.val.cm.x = [items |-> <<I(0), neg(inp.u.z), inp.u.y>>]
    /\ out.val.cm.y = [items |-> <<inp.u.z, I(0), neg(inp.u.x)>>]
    /\ out.val.cm.z = [items |-> <<neg(inp.u.y), inp.u.x, I(0)>>]
    /\ \A r \in 1..3, c \in 1..3 :
         Matrix_transpose(out.val.cm)[Names9[r][c]] = Matrix_neg(out.val.cm)[Names9[r][c]]

\* C11 witness: the product was taken for the vectors (1, 7, 3) and (2, 5, 6)
\* of the docstring, and it is (27, 0, -9)
C11_Witness ==
  /\ Did("u.cross_matrix @ v")
  /\ inp.u = NewVector(<<I(1), I(7), I(3)>>)
  /\ inp.v = NewVector(<<I(2), I(5), I(6)>>)
  /\ out.val.prod.x = I(27) /\ out.val.prod.y = I(0) /\ out.val.prod.z = I(-9)

\* C12: u.cross(v) is (u.y*v.z - u.z*v.y, u.z*v.x - u.x*v.z,
\* u.x*v.y - u.y*v.x), the operands in this order, for all u, v; and
\* Vector.i().cross(Vector.j()) has exactly the components of Vector.k(),
\* (0, 0, 1), and == finds them equal.
C12_CrossIsStandardProduct ==
  /\ Did("Vector.cross") =>
       LET u == inp.u
           v == inp.v
       IN  /\ out.val.uv.x = sub(mul(u.y, v.z), mul(u.z, v.y))
           /\ out.val.uv.y = sub(mul(u.z, v.x), mul(u.x, v.z))
           /\ out.val.uv.z = sub(mul(u.x, v.y), mul(u.y, v.x))
  /\ Did("Vector.i().cross(Vector.j())") =>
       /\ Vector_i.components = [items |-> <<I(1), I(0), I(0)>>]
       /\ Vector_j.components = [items |-> <<I(0), I(1), I(0)>>]
       /\ out.val.k.components = [items |-> <<I(0), I(0), I(1)>>]
       /\ \A a \in XYZ : out.val.ij[a] = out.val.k[a]
       /\ Vector_eq(out.val.ij, out.val.k) = True

\* C12 witness: i x j was taken and is (0, 0, 1)
C12_Witness ==
  /\ Did("Vector.i().cross(Vector.j())")
  /\ out.val.ij.x = I(0) /\ out.val.ij.y = I(0) /\ out.val.ij.z = I(1)

\* the element of M at row r, column c (from 0), read as M[r, c]
At(M, r, c) == Matrix_getitem(M, [tup |-> <<r, c>>])
SameElements(A, B) == \A r \in 1..3, c \in 1..3 : A[Names9[r][c]] = B[Names9[r][c]]

\* C13: for every matrix M with numeric components, M @ Matrix.identity() and
\* Matrix.identity() @ M are matrices that == finds equal to M (and that have
\* exactly the elements of M).
C13_IdentityIsNeutral ==
  (Did("M @ Matrix.identity()") /\ Numeric(inp.M)) =>
    /\ IsInstance(out.val.right, "Matrix")
    /\ IsInstance(out.val.left, "Matrix")
    /\ Matrix_eq(out.val.right, inp.M) = True
    /\ Matrix_eq(inp.M, out.val.left) = True
    /\ SameElements(out.val.right, inp.M)
    /\ SameElements(out.val.left, inp.M)

\* C13 witness: both products were taken for the matrix [[1,2,3],[4,5,6],[7,8,9]]
C13_Witness ==
  /\ Did("M @ Matrix.identity()")
  /\ inp.M = NewMatrix(<<<<I(1), I(2), I(3)>>, <<I(4), I(5), I(6)>>, <<I(7), I(8), I(9)>>>>)
  /\ out.val.right.z = [items |-> <<I(7), I(8), I(9)>>]
  /\ out.val.left.z = [items |-> <<I(7), I(8), I(9)>>]

\* C14: for every matrix M, M.transpose has at row i, column j the element M
\* has at row j, column i (read by name and by index), M.transpose.transpose
\* has exactly the elements of M, and == finds it equal to M (the components
\* being numbers).
C14_TransposeIsInvolution ==
  Did("Matrix.transpose") =>
    /\ IsInstance(out.val.t, "Matrix")
    /\ \A r \in 1..3, c \in 1..3 :
         /\ out.val.t[Names9[r][c]] = inp.M[Names9[c][r]]
         /\ At(out.val.t, r - 1, c - 1) = At(inp.M, c - 1, r - 1)
    /\ SameElements(out.val.tt, inp.M)
    /\ out.val.tt.components = inp.M.components
    /\ Numeric(inp.M) => Matrix_eq(out.val.tt, inp.M) = True

\* C14 witness: the transpose of [[1,2,3],[4,0,6],[7,8,9]] was taken; its
\* first row is the first column (1, 4, 7)
C14_Witness ==
  /\ Did("Matrix.transpose")
  /\ inp.M = NewMatrix(<<<<I(1), I(2), I(3)>>, <<I(4), I(0), I(6)>>, <<I(7), I(8), I(9)>>>>)
  /\ out.val.t.x = [items |-> <<I(1), I(4), I(7)>>]
  /\ out.val.tt.x = [items |-> <<I(1), I(2), I(3)>>]

\* 1 - 2*(a^2 + b^2), 2*(a*b - c*d) and 2*(a*b + c*d)
OneMinusTwice(a, b) == sub(I(1), mul(I(2), add(mul(a, a), mul(b, b))))
TwiceDifference(a, b, c, d) == mul(I(2), sub(mul(a, b), mul(c, d)))
TwiceSum(a, b, c, d) == mul(I(2), add(mul(a, b), mul(c, d)))

\* C15: for every 4-tuple (w, x, y, z), normalised or not,
\* Matrix.transformation returns exactly
\* [[1-2(y^2+z^2), 2(xy-wz), 2(xz+wy)], [2(xy+wz), 1-2(x^2+z^2), 2(yz-wx)],
\*  [2(xz-wy), 2(yz+wx), 1-2(x^2+y^2)]]; for (1, 0, 0, 0) it is a matrix that
\* == finds equal to Matrix.identity().
C15_TransformationMatrix ==
  (Did("Matrix.transformation") /\ Len(inp.quaternion.tup) = 4) =>
    LET w == inp.quaternion.tup[1]
        x == inp.quaternion.tup[2]
        y == inp.quaternion.tup[3]
        z == inp.quaternion.tup[4]
    IN  /\ IsInstance(out.val, "Matrix")
        /\ out.val.x = [items |-> <<OneMinusTwice(y, z), TwiceDifference(x, y, w, z),
                                    TwiceSum(x, z, w, y)>>]
        /\ out.val.y = [items |-> <<TwiceSum(x, y, w, z), OneMinusTwice(x, z),
                                    TwiceDifference(y, z, w, x)>>]
        /\ out.val.z = [items |-> <<TwiceDifference(x, z, w, y), TwiceSum(y, z, w, x),
                                    OneMinusTwice(x, y)>>]
        /\ inp.quaternion.tup = <<I(1), I(0), I(0), I(0)>>
             => Matrix_eq(out.val, Matrix_identity) = True

\* C15 witness: the transformation of the tuple (0, 0, 0, 2), which is not
\* normalised, was taken: it is [[-7, 0, 0], [0, -7, 0], [0, 0, 1]]
C15_Witness ==
  /\ Did("Matrix.transformation")
  /\ inp.quaternion.tup = <<I(0), I(0), I(0), I(2)>>
  /\ out.val.xx = I(-7) /\ out.val.yy = I(-7) /\ out.val.zz = I(1)
  /\ out.val.xy = I(0)

IsList3(c) == IsList(c) /\ Len(c.items) = 3
IsList3x3(c) == IsList3(c) /\ \A r \in 1..3 : IsList3(c.items[r])

\* C16: for every input of three elements, Vector(input) read back through
\* x, y, z (and by index) gives the input's elements, unchanged and in order;
\* for every input of three rows of three, Matrix(input) read back through
\* xx, ..., zz, through M[i][j] and through M[i, j] gives the input's element
\* at that row and column, unchanged.
C16_ConstructionRoundTrip ==
  /\ (Did("Vector") /\ IsList3(inp.components)) =>
       /\ IsInstance(out.val.self, "Vector")
       /\ out.val.named = inp.components.items
       /\ out.val.indexed = inp.components.items
  /\ (Did("Matrix") /\ IsList3x3(inp.components)) =>
       /\ IsInstance(out.val.self, "Matrix")
       /\ \A r \in 1..3, c \in 1..3 :
            /\ out.val.named[r][c] = inp.components.items[r].items[c]
            /\ out.val.rows[r][c] = inp.components.items[r].items[c]
            /\ out.val.pairs[r][c] = inp.components.items[r].items[c]

\* C16 witness: Vector([1/2, 0, 3/2]) was constructed and read back
C16_Witness ==
  /\ Did("Vector")
  /\ inp.components = ListOf(<<Rat(1, 2), I(0), Rat(3, 2)>>)
  /\ out.val.named = <<Rat(1, 2), I(0), Rat(3, 2)>>

\* the sum over k of A[r, k] * B(k), for k = 0, 1, 2
RowTimes(A, r, B(_)) ==
  add(add(mul(At(A, r, 0), B(0)), mul(At(A, r, 1), B(1))), mul(At(A, r, 2), B(2)))

\* C17: M @ other is, for a Matrix other, the Matrix whose element at row i,
\* column j is the sum over k of M[i, k] * other[k, j]; for a Vector other,
\* the Vector whose element i is the sum over k of M[i, k] * other[k]; and
\* for any other operand a TypeError, with no value returned.
C17_MatmulDispatch ==
  Did("Matrix.__matmul__") =>
    IF IsInstance(inp.other, "Matrix") THEN
      /\ IsInstance(out.val, "Matrix")
      /\ \A i \in 0..2, j \in 0..2 :
           LET column(k) == At(inp.other, k, j)
           IN  At(out.val, i, j) = RowTimes(inp.self, i, column)
    ELSE IF IsInstance(inp.other, "Vector") THEN
      /\ IsInstance(out.val, "Vector")
      /\ \A i \in 0..2 :
           LET element(k) == Vector_getitem(inp.other, k)
           IN  Vector_getitem(out.val, i) = RowTimes(inp.self, i, element)
    ELSE
      out.val = Raise("TypeError", "Can only dot product with Matrix or Vector.")

\* C17 witness: the product of the two matrices of the docstring was taken;
\* it is [[30, 36, 42], [66, 81, 96], [102, 126, 150]]
C17_Witness ==
  /\ Did("Matrix.__matmul__")
  /\ inp.self = NewMatrix(<<<<I(1), I(2), I(3)>>, <<I(4), I(5), I(6)>>, <<I(7), I(8), I(9)>>>>)
  /\ inp.other = inp.self
  /\ out.val.x = [items |-> <<I(30), I(36), I(42)>>]
  /\ out.val.y = [items |-> <<I(66), I(81), I(96)>>]
  /\ out.val.z = [items |-> <<I(102), I(126), I(150)>>]

\* C18: constructing a Vector from a sequence whose length is not 3, or a
\* Matrix from a nested sequence that is not 3x3, raises; and Vector add,
\* subtract, dot and cross with an operand that is not a Vector (a Matrix, a
\* number, a list) raise: none of them returns a value.
C18_MisShapedOperandRaises ==
  /\ (Did("Vector") /\ ~IsList3(inp.components)) => IsExc(out.val.self)
  /\ (Did("Matrix") /\ ~IsList3x3(inp.components)) => IsExc(out.val.self)
  /\ (Did("Vector + - dot cross") /\ ~IsInstance(inp.other, "Vector")) =>
       /\ IsExc(out.val.add)
       /\ IsExc(out.val.sub)
       /\ IsExc(out.val.dot)
       /\ IsExc(out.val.cross)

\* ------------------------------------------------------------------------
\* Failures that reach the caller
\* ------------------------------------------------------------------------

\* the matrix instance o has numbers for components and determinant 0
Singular(o) == o.cls = "Matrix" /\ Numeric(o) /\ IsZero(CofactorExpansion(o))

\* C19 (Spec): every read of inverse on a singular matrix raises
\* ZeroDivisionError to the caller, having run the computation, the first
\* time and every later time; nothing is ever stored for inverse on a
\* singular matrix, and no value is returned for it.
C19_SingularInverseAlwaysRaises ==
  /\ \A i \in 1..Len(objs) : "inverse" \in DOMAIN objs[i] => ~Singular(objs[i])
  /\ (ret.op = "inverse" /\ Singular(objs[ret.self])) =>
       /\ ret.val = ZeroDivisionError
       /\ ret.ran

\* C19 witness: inverse was read twice on the singular matrix
\* [[1,2,3],[4,5,6],[7,8,9]], and the second read raised as the first did
C19_Witness ==
  /\ ret.op = "inverse"
  /\ ret.again
  /\ objs[ret.self].xx = I(1) /\ objs[ret.self].yy = I(5) /\ objs[ret.self].zz = I(9)
  /\ Singular(objs[ret.self])
  /\ ret.val = ZeroDivisionError

\* C20 (SpecFunctions): for a vector or matrix of numbers, division by a zero
\* scalar raises ZeroDivisionError and division by any other scalar divides
\* every component; multiplication by any scalar, 0 included, multiplies
\* every component; and unit_vector of a vector whose magnitude is 0 raises
\* ZeroDivisionError.
C20_DivisionByZeroRaises ==
  /\ Did("Vector * k, / k") =>
       /\ IsInstance(out.val.mul, "Vector")
       /\ \A a \in XYZ : out.val.mul[a] = mul(out.val.k, inp.u[a])
       /\ IF IsZero(out.val.k) THEN out.val.div = ZeroDivisionError
          ELSE /\ IsInstance(out.val.div, "Vector")
               /\ \A a \in XYZ : out.val.div[a] = div(inp.u[a], out.val.k)
  /\ (Did("Matrix * k, / k") /\ Numeric(inp.M)) =>
       /\ IsInstance(out.val.mul, "Matrix")
       /\ \A r \in 1..3, c \in 1..3 :
            out.val.mul[Names9[r][c]] = mul(out.val.k, inp.M[Names9[r][c]])
       /\ IF IsZero(out.val.k) THEN out.val.div = ZeroDivisionError
          ELSE /\ IsInstance(out.val.div, "Matrix")
               /\ \A r \in 1..3, c \in 1..3 :
                    out.val.div[Names9[r][c]] = div(inp.M[Names9[r][c]], out.val.k)
  /\ Did("Vector.unit_vector") =>
       IF IsZero(Vector_abs(inp.u)) THEN out.val = ZeroDivisionError
       ELSE IsInstance(out.val, "Vector")

\* C20 witness: (1, 2, 3) was multiplied and divided by 0: the product is
\* (0, 0, 0) and the division raised
C20_Witness ==
  /\ Did("Vector * k, / k")
  /\ inp.u = NewVector(<<I(1), I(2), I(3)>>)
  /\ out.val.k = I(0)
  /\ out.val.mul.components = [items |-> <<I(0), I(0), I(0)>>]
  /\ out.val.div = ZeroDivisionError

\* |a - b| <= 1e-9 for numbers a and b
Within(a, b) == ModLe(NumSub(a, b), EqTolInv)
AllWithin(a, b, names) == Bool(\A n \in names : Within(a[n], b[n]))
AllNames9 == {Names9[r][c] : r \in 1..3, c \in 1..3}
EqualityLaws(names) ==
  /\ out.val.ab = AllWithin(inp.a, inp.b, names)
  /\ out.val.bc = AllWithin(inp.b, inp.c, names)
  /\ out.val.ac = AllWithin(inp.a, inp.c, names)
  /\ out.val.ba = out.val.ab
  /\ out.val.aa = True

\* C21: a == b of two Vectors (two Matrices) is true exactly when
\* |a_c - b_c| <= 1e-9 at every one of the 3 (9) positions, whatever the
\* magnitude of the values (2000 and 2000.000001 are unequal); it is
\* reflexive and symmetric.  That it is not transitive is the witness.
C21_EqualityIsAbsoluteTolerance ==
  /\ Did("Vector.__eq__") => EqualityLaws(XYZ)
  /\ Did("Matrix.__eq__") => EqualityLaws(AllNames9)
\* a == b and b == c but not a == c: x components 0, 1e-9 and 2e-9
C21_Witness ==
  /\ Did("Vector.__eq__")
  /\ out.val.ab = True /\ out.val.bc = True /\ out.val.ac = False
  /\ inp.a.x = I(0) /\ inp.b.x = Tol /\ inp.c.x = Rat(2, EqTolInv)

\* M @ (M @ (... @ identity)), n factors M
RECURSIVE Product(_, _)
Product(M, n) ==
  IF n = 0 THEN Matrix_identity ELSE Matrix_matmul(M, Product(M, n - 1))

\* C22: for every matrix M of numbers and every integer n >= 0, M ** n is the
\* product of n factors M: M ** 0 is the identity matrix, and M ** (n + 1) has
\* the elements of (M ** n) @ M and of M @ (M ** n).
C22_PowerIsRepeatedProduct ==
  (Did("Matrix.__pow__") /\ Numeric(inp.base) /\ inp.n >= 0) =>
    /\ IsInstance(out.val.pow, "Matrix")
    /\ IsInstance(out.val.next, "Matrix")
    /\ SameElements(out.val.pow, Product(inp.base, inp.n))
    /\ inp.n = 0 => \A r \in 1..3, c \in 1..3 :
                      out.val.pow[Names9[r][c]] = IF r = c THEN I(1) ELSE I(0)
    /\ SameElements(out.val.next, out.val.right)
    /\ SameElements(out.val.next, out.val.left)
\* the square of the non-commuting docstring matrix [[1,2,3],[4,5,6],[7,8,9]]
C22_Witness ==
  /\ Did("Matrix.__pow__")
  /\ inp.n = 2
  /\ inp.base.x = [items |-> <<I(1), I(2), I(3)>>]
  /\ out.val.pow.x = [items |-> <<I(30), I(36), I(42)>>]
  /\ out.val.pow.z = [items |-> <<I(102), I(126), I(150)>>]

\* |v| <= 1e-6, for a real v by cross-multiplication
AbsLeTol(v) ==
  IF IsReal(v) THEN IAbs(v.re) * DiagTolInv <= v.den ELSE ModLe(v, DiagTolInv)
OffDiagonalNames ==
  {Names9[q[1]][q[2]] : q \in {p \in (1..3) \X (1..3) : p[1] # p[2]}}
DiagonalTest(M, result) ==
  (\A n \in OffDiagonalNames : IsNum(M[n])) =>
    result = Bool(\A n \in OffDiagonalNames : AbsLeTol(M[n]))

\* C23: is_diagonal is true exactly when each of the six off-diagonal
\* elements has absolute value <= 1e-6: an element of exactly 1e-6 counts as
\* diagonal, 1e-7 (above the 1e-9 of equality) does too, and the diagonal
\* elements are not examined, so callables on the diagonal do not matter.
C23_DiagonalTest ==
  /\ DiagTolInv # EqTolInv
  /\ Did("Matrix.is_diagonal") => DiagonalTest(inp.M, out.val)
  /\ Did("Matrix.is_diagonal near tol") => DiagonalTest(inp.D, out.val)
\* all six off-diagonal elements are exactly 1e-6 and the diagonal holds
\* callables: is_diagonal is true
C23_Witness ==
  /\ Did("Matrix.is_diagonal near tol")
  /\ \A n \in OffDiagonalNames : inp.D[n] = DiagTol
  /\ IsFn(inp.D.xx)
  /\ out.val = True

\* what the call of a component gives: the callable k is lambda x: x**k
Invoked(f, a) == ipow(a, f.fn)
CallLaw(names, cls, msg) ==
  IF \A n \in names : IsFn(inp.callee[n])
  THEN /\ IsInstance(out.val, cls)
       /\ \A n \in names : out.val[n] = Invoked(inp.callee[n], inp.args)
  ELSE out.val = Raise("TypeError", msg)

\* C24: calling a Vector (a Matrix) whose components are all callable gives a
\* new Vector (Matrix) holding, in each position, what that component returns
\* for the arguments; if any component is not callable the call raises
\* TypeError saying that an element is not callable.
C24_CallAppliesComponents ==
  /\ Did("Vector.__call__") =>
       CallLaw(XYZ, "Vector", "One or more elements of this vector is not callable.")
  /\ Did("Matrix.__call__") =>
       CallLaw(AllNames9, "Matrix", "One or more elements of this matrix is not callable.")
\* the docstring's M(2) = [[2, 4, 8], [16, 32, 64], [128, 256, 512]]
C24_Witness ==
  /\ Did("Matrix.__call__")
  /\ inp.args = I(2)
  /\ out.val.components =
       [items |-> << [items |-> <<I(2), I(4), I(8)>>],
                     [items |-> <<I(16), I(32), I(64)>>],
                     [items |-> <<I(128), I(256), I(512)>>] >>]

\* |a| <= 1e-9
Negligible(a) == IsNum(a) /\ ModLe(a, EqTolInv)

\* C25: u.is_parallel_to(v) is true exactly when each component of the cross
\* product u.y*v.z - u.z*v.y, u.z*v.x - u.x*v.z, u.x*v.y - u.y*v.x has
\* absolute value <= 1e-9; it agrees with v.is_parallel_to(u), and the zero
\* vector is parallel to every vector.
C25_ParallelIsNegligibleCross ==
  Did("Vector.is_parallel_to") =>
    LET u == inp.u
        v == inp.v
    IN  /\ out.val.uv = Bool(/\ Negligible(sub(mul(u.y, v.z), mul(u.z, v.y)))
                             /\ Negligible(sub(mul(u.z, v.x), mul(u.x, v.z)))
                             /\ Negligible(sub(mul(u.x, v.y), mul(u.y, v.x))))
        /\ out.val.vu = out.val.uv
        /\ out.val.zu = True
        /\ out.val.uz = True
\* (1, 0, 0) and (1, 1e-9, 0) are parallel: their cross product is (0, 0, 1e-9)
C25_Witness ==
  /\ Did("Vector.is_parallel_to")
  /\ inp.u = NewVector(<<I(1), I(0), I(0)>>)
  /\ inp.v = NewVector(<<I(1), Tol, I(0)>>)
  /\ Vector_cross(inp.u, inp.v).z = Tol
  /\ out.val.uv = True

\* C26: u.is_orthogonal_to(v) is true exactly when
\* |u.x*v.x + u.y*v.y + u.z*v.z| <= 1e-9, whatever the magnitude of the
\* components, and it agrees with v.is_orthogonal_to(u).
C26_OrthogonalIsNegligibleDot ==
  Did("Vector.is_orthogonal_to") =>
    LET u == inp.u
        v == inp.v
    IN  /\ out.val.uv =
             Bool(Negligible(add(add(mul(u.x, v.x), mul(u.y, v.y)), mul(u.z, v.z))))
        /\ out.val.vu = out.val.uv
\* (1, 1, 0) and (1e-9, 0, 0) are orthogonal: their dot product is 1e-9;
\* (2, 1, 0) and (1e-9, 0, 0) are not: their dot product is 2e-9
C26_Witness ==
  /\ Did("Vector.is_orthogonal_to")
  /\ inp.u = NewVector(<<I(1), I(1), I(0)>>)
  /\ inp.v = NewVector(<<Tol, I(0), I(0)>>)
  /\ Vector_dot(inp.u, inp.v) = Tol
  /\ out.val.uv = True
  /\ Vector_is_orthogonal_to(NewVector(<<I(2), I(1), I(0)>>), inp.v) = False

\* ------------------------------------------------------------------------
\* find_two_closest_integers(number), statement by statement (specification
\* SpecClosest): inp is the argument, pc the statement the call is at, local
\* its variables number_sqrt and guess, out what it returned or raised.
\* ------------------------------------------------------------------------

\* the arguments: the integers from 0 to MaxNumber, and 10**309, an int too
\* large to write out, given as its base and exponent
MaxNumber == 150
ClosestInputs ==
  { [number |-> n] : n \in 0..MaxNumber } \cup { [number |-> 10, exp |-> 309] }
IsPower == "exp" \in DOMAIN inp

OverflowError == Raise("OverflowError", "int too large to convert to float")
\* number**0.5 converts the int to a double first: the largest double is
\* about 1.8e308, so 10**e has none for e > 308
FloatOverflows == IsPower /\ inp.exp > 308
\* number**0.5 of an int >= 0: a float, also when the root is whole; its
\* integer part is exact for the small arguments (all below 2**52)
FloatSqrt(n) == [float |-> ISqrt(n), whole |-> IsSquare(n)]
\* isinstance(v, int)
isinstance_int(v) == IsNum(v) /\ IsInt(v)
\* int(v) of a float
int(v) == v.float

Returned(v) ==
  /\ out' = [op |-> "find_two_closest_integers", val |-> v]
  /\ pc' = "done"

InitClosest ==
  /\ inp \in ClosestInputs
  /\ out = <<>>
  /\ pc = "sqrt"
  /\ local = <<>>
  /\ slot = <<>>
  /\ made = 0
  /\ InstancesIdle

\* number_sqrt = number**0.5
closest_sqrt ==
  /\ pc = "sqrt"
  /\ IF FloatOverflows
     THEN Returned(OverflowError) /\ UNCHANGED local
     ELSE /\ ~IsPower
          /\ local' = [number_sqrt |-> FloatSqrt(inp.number)]
          /\ pc' = "if"
          /\ UNCHANGED out
  /\ UNCHANGED <<inp, slot, made, instanceVars>>

\* if isinstance(number_sqrt, int): return ... else: guess = int(number_sqrt)
closest_if ==
  /\ pc = "if"
  /\ IF isinstance_int(local.number_sqrt)
     THEN /\ Returned([tup |-> <<local.number_sqrt, local.number_sqrt>>])
          /\ UNCHANGED local
     ELSE /\ local' = [number_sqrt |-> local.number_sqrt,
                      guess |-> int(local.number_sqrt)]
          /\ pc' = "while"
          /\ UNCHANGED out
  /\ UNCHANGED <<inp, slot, made, instanceVars>>

\* one turn of while True: return at a divisor, else guess -= 1
closest_while ==
  /\ pc = "while"
  /\ IF local.guess = 0
     THEN Returned(ZeroDivisionError) /\ UNCHANGED local
     ELSE IF inp.number % local.guess = 0
     THEN /\ Returned([tup |-> <<local.guess, inp.number \div local.guess>>])
          /\ UNCHANGED local
     ELSE /\ local' = [local EXCEPT !.guess = @ - 1]
          /\ UNCHANGED <<pc, out>>
  /\ UNCHANGED <<inp, slot, made, instanceVars>>

NextClosest ==
  \/ closest_sqrt
  \/ closest_if
  \/ closest_while

\* the call is the only thing running: it always takes its next step
SpecClosest == InitClosest /\ [][NextClosest]_vars /\ WF_vars(NextClosest)

ClosestDone == pc = "done" /\ out # <<>> /\ out.op = "find_two_closest_integers"
\* the argument is an integer >= 1
AtLeastOne == IsPower \/ inp.number >= 1
Divides(d, n) == n % d = 0
\* (a, b) for n: a <= b, a * b = n, a the largest divisor of n with a*a <= n
ClosestFactors(n, a, b) ==
  /\ a >= 1 /\ a <= b /\ a * b = n
  /\ \A d \in 1..n : (Divides(d, n) /\ d * d <= n) => d <= a
IsPrime(n) == n >= 2 /\ \A d \in 2..(n - 1) : ~Divides(d, n)
\* the pair returned for a small argument
ClosestResult ==
  LET n == inp.number
      r == out.val
  IN  /\ IsTuple(r)
      /\ ~IsPower
      /\ ClosestFactors(n, r.tup[1], r.tup[2])
      /\ n = 10 => r.tup = <<2, 5>>
      /\ n = 12 => r.tup = <<3, 4>>
      /\ IsPrime(n) => r.tup = <<1, n>>
      /\ IsSquare(n) => r.tup = <<ISqrt(n), ISqrt(n)>>

\* C27: for every integer number >= 1 the call returns, and what it returns is
\* a pair (a, b) with a <= b, a * b == number and a the largest divisor of
\* number not above its square root: (2, 5) for 10, (3, 4) for 12, (1, p) for
\* a prime p, (k, k) for k*k.
C27_TerminatesWithClosestFactors ==
  /\ <>(AtLeastOne => ClosestDone)
  /\ [](ClosestDone /\ AtLeastOne => ClosestResult)

\* for the arguments 1..MaxNumber the call does return that pair
ClosestFactorsOfSmallNumbers ==
  /\ <>(AtLeastOne => ClosestDone)
  /\ [](ClosestDone /\ AtLeastOne /\ ~IsPower => ClosestResult)
\* the call with the prime 13 counted its guess down from 3 and returned (1, 13)
ClosestWalkedDown ==
  /\ ClosestDone
  /\ inp.number = 13
  /\ local.guess = 1
  /\ out.val = [tup |-> <<1, 13>>]
====
